---- MODULE Spec2Model ----
(***************************************************************************)
(* Brain CLI: the transport client (lib/brain-client.js), the one-shot     *)
(* print path of bin/brain.js, the REPL (lib/repl.js) and the session      *)
(* store (lib/session-manager.js), as state machines.  Every action is one *)
(* run-to-completion callback of the single-threaded event loop.           *)
(***************************************************************************)
EXTENDS Integers, Sequences, FiniteSets, TLC

\* ------------------------------------------------------------------ bounds
\* number of connect() calls made on one BrainClient
MaxSockets == 2
\* number of frames the client alone writes to its sockets
MaxSends == 1

Sockets == 1..MaxSockets

\* ------------------------------------------------------------ client state
VARIABLES
    ws,          \* this.ws: 0 is null, else the socket the last connect() made
    connected,   \* this.connected
    readyState,  \* per socket, the ws library's readyState ("UNUSED": not made)
    errPending,  \* per socket: an 'error' event is queued and not yet emitted
    timer,       \* per connect() call: its handshake timer
    promise,     \* per connect() call: the state of the promise it returned
    first,       \* history variable: the first signal of each connect() call
    wire,        \* the frames put on the wire, in order: [sock, frame]
    lastSend,    \* the outcome of the most recent sendCommand call
    lastClose,   \* the outcome of the disconnect call on the current socket
    lastDispatch, \* what the most recent inbound frame caused
    \* ------------------------------------------------------- process state
    proc,        \* "running", or "exit0" / "exit1" after process.exit(status)
    pc,          \* where the main routine of the process stands ("-": none)
    subs,        \* the listeners on the client's generic 'message' channel
    queryTimer,  \* the 30 s timer of the one-shot print path
    \* ------------------------------------------- REPL and session store
    files,       \* the session directory: per id, whether <id>.json holds a
                 \* record that can be read, and the history of that record
    mtimeOrder,  \* the ids of the files of the directory, in the order a scan
                 \* sorts them, least recently written first
    argv,        \* the flags of the command line: -c, and the id given with -r
    opts,        \* the options the REPL was constructed with
    currentSessionId, \* BrainREPL.currentSessionId ("none": null)
    isRunning,   \* BrainREPL.isRunning
    lastOps,     \* what the most recent REPL handler did, in order
    \* ------------------------------- the processes that share the store
    clock,       \* the time, in the units in which modification times differ
    written,     \* the ids of the files written at the present time
    call,        \* per process, the SessionManager call it is in
    lastCall,    \* the most recent call that returned, and what it returned
    \* ------------------------------------------ the classifier on its own
    parsed       \* the calls of parse so far: the text and the Command

storeVars == <<clock, written, call, lastCall, parsed>>

clientVars == <<ws, connected, readyState, errPending, timer, promise, first>>
replVars == <<files, mtimeOrder, argv, opts, storeVars, currentSessionId, isRunning, lastOps>>
appVars == <<proc, pc, subs, queryTimer, files, mtimeOrder, argv, opts, storeVars,
             currentSessionId, isRunning, lastOps>>
vars == <<ws, connected, readyState, errPending, timer, promise, first,
          wire, lastSend, lastClose, lastDispatch, proc, pc, subs, queryTimer,
          files, mtimeOrder, argv, opts, storeVars, currentSessionId, isRunning, lastOps>>

\* --------------------------------------------------------- inbound frames
RecognizedTypes ==
    {"server_connected", "server_disconnected", "tools_list", "servers_list",
     "query_response", "thinking", "status", "error"}

\* A frame as it arrives on the socket: text that either is not JSON, or is
\* the JSON of null, of a scalar, or of an object.  An object has a `type`
\* member ("absent": none) and either all the members its handler reads
\* ("full") or none of them ("bare").
Raw(json, type, body) == [json |-> json, type |-> type, body |-> body]

RawFrames ==
    {Raw("malformed", "-", "-"), Raw("null", "-", "-"), Raw("scalar", "-", "-")}
    \cup {Raw("object", t, "full") : t \in RecognizedTypes \cup {"absent", "bogus"}}
    \cup {Raw("object", t, "bare") :
             t \in {"server_connected", "tools_list", "servers_list", "query_response"}}

NoFrame == Raw("-", "-", "-")

\* JSON.parse(data.toString()): throws on text that is not JSON, otherwise
\* yields the value; the value of an object keeps its members.
ParseError == [kind |-> "ParseError", type |-> "-", body |-> "-"]

JSONparse(raw) ==
    IF raw.json = "malformed" THEN ParseError
    ELSE IF raw.json = "object"
         THEN [kind |-> "object", type |-> raw.type, body |-> raw.body]
         ELSE [kind |-> raw.json, type |-> "-", body |-> "-"]

\* const { type, ...data } = message: throws a TypeError on null; on a
\* scalar, and on an object without the member, type is undefined.
DestructureThrows(message) == message.kind = "null"

TypeOf(message) ==
    IF message.kind = "object" /\ message.type # "absent"
    THEN message.type ELSE "undefined"

\* a switch whose default branch falls into the status handler
HandlerFor_DefaultIsStatus(type) ==
    IF type \in RecognizedTypes THEN type ELSE "status"

\* the switch of handleMessage: the typed handler of a type, "none" in the
\* default branch
HandlerFor(type) ==
    IF type \in RecognizedTypes THEN type ELSE "none"

\* The typed handlers that dereference a member of their data:
\* handleServerConnected (server.id), handleToolsList (tools.length) and
\* handleServersList (servers.length) throw a TypeError when it is missing;
\* the other handlers only print.
HandlerThrows(handler, message) ==
    /\ handler \in {"server_connected", "tools_list", "servers_list"}
    /\ message.body = "bare"

NoDispatch ==
    [sock |-> 0, raw |-> NoFrame, handler |-> "none", emitted |-> <<>>,
     logged |-> "none", caught |-> FALSE, escaped |-> FALSE,
     dropsBefore |-> FALSE, raisedBefore |-> FALSE]

\* handleMessage(message): the typed handler, then the generic channel.  An
\* exception leaves it at the point where it is raised; emit() runs the
\* listeners of the channel inside the call, so the exception of a listener
\* that throws ("throws" in subs) leaves emit() and handleMessage too.
handleMessage(message) ==
    IF DestructureThrows(message)
    THEN [handler |-> "none", emitted |-> <<>>, logged |-> "none", threw |-> TRUE]
    ELSE LET h == HandlerFor(TypeOf(message)) IN
         IF HandlerThrows(h, message)
         THEN [handler |-> h, emitted |-> <<>>, logged |-> "none", threw |-> TRUE]
         ELSE [handler |-> h, emitted |-> <<message>>,
               logged |-> IF h = "none" THEN "Unknown message type" ELSE "none",
               threw |-> "throws" \in subs]

\* a 'message' listener without the try block: the exception leaves it
OnMessage_NoTry(s, raw) ==
    LET message == JSONparse(raw) IN
    IF message = ParseError
    THEN [sock |-> s, raw |-> raw, handler |-> "none", emitted |-> <<>>,
          logged |-> "none", caught |-> FALSE, escaped |-> TRUE]
    ELSE LET r == handleMessage(message) IN
         [sock |-> s, raw |-> raw, handler |-> r.handler, emitted |-> r.emitted,
          logged |-> r.logged, caught |-> FALSE, escaped |-> r.threw]

\* a 'message' listener whose try block holds JSON.parse only: an exception
\* of the dispatch leaves it
OnMessage_TryParseOnly(s, raw) ==
    LET message == JSONparse(raw) IN
    IF message = ParseError
    THEN [sock |-> s, raw |-> raw, handler |-> "none", emitted |-> <<>>,
          logged |-> "Failed to parse message", caught |-> TRUE,
          escaped |-> FALSE]
    ELSE LET r == handleMessage(message) IN
         [sock |-> s, raw |-> raw, handler |-> r.handler, emitted |-> r.emitted,
          logged |-> r.logged, caught |-> FALSE, escaped |-> r.threw]

\* the socket's 'message' listener: parse and dispatch inside one try block,
\* whose catch prints "Failed to parse message".  `logged` is the first line
\* the listener logged, `caught` tells that the catch ran.
OnMessage(s, raw) ==
    LET message == JSONparse(raw) IN
    IF message = ParseError
    THEN [sock |-> s, raw |-> raw, handler |-> "none", emitted |-> <<>>,
          logged |-> "Failed to parse message", caught |-> TRUE,
          escaped |-> FALSE]
    ELSE LET r == handleMessage(message) IN
         [sock |-> s, raw |-> raw, handler |-> r.handler, emitted |-> r.emitted,
          logged |-> IF r.threw /\ r.logged = "none"
                     THEN "Failed to parse message" ELSE r.logged,
          caught |-> r.threw, escaped |-> FALSE]

\* ------------------------------------------------------------ event loop
\* A callback of the event loop (a timer, a socket event, a signal) runs only
\* in a live process and only when no continuation of an await is ready:
\* continuations are microtasks and run first.
ContinuationReady ==
    pc \in {"awaitConnect", "replAwaitConnect"} /\ promise[ws] # "pending"

Idle == proc = "running" /\ ~ContinuationReady

\* ------------------------------------------------------------ connect()
\* resolve()/reject() of a promise: only the first call settles it
Settle(p, outcome) == IF p = "pending" THEN outcome ELSE p

\* clearTimeout(timeoutId): cancels a timer that has not fired
ClearTimer(t) == IF t = "armed" THEN "cleared" ELSE t

Signal(f, sig) == IF f = "none" THEN sig ELSE f

Unused == {s \in Sockets : readyState[s] = "UNUSED"}

\* connect(url, timeout): arms the timer, makes a new socket and stores it in
\* this.ws; the socket this.ws held before is neither closed nor unsubscribed.
connect ==
    /\ Unused # {}
    /\ LET s == CHOOSE x \in Unused : \A y \in Unused : x <= y IN
       /\ ws' = s
       /\ readyState' = [readyState EXCEPT ![s] = "CONNECTING"]
       /\ timer' = [timer EXCEPT ![s] = "armed"]
       /\ promise' = [promise EXCEPT ![s] = "pending"]
    /\ lastClose' = "none"
    /\ UNCHANGED <<connected, errPending, first>>

\* the setTimeout callback: reject(new Error('Connection timeout'))
TimerFire(s) ==
    /\ Idle
    /\ timer[s] = "armed"
    /\ timer' = [timer EXCEPT ![s] = "fired"]
    /\ promise' = [promise EXCEPT ![s] = Settle(@, "ConnectionTimeout")]
    /\ first' = [first EXCEPT ![s] = Signal(@, "timer")]
    /\ UNCHANGED <<ws, connected, readyState, errPending, wire, lastSend, lastClose,
                   lastDispatch>>
    /\ UNCHANGED appVars

\* the socket's 'open' listener
WsOpen(s) ==
    /\ Idle
    /\ readyState[s] = "CONNECTING"
    /\ readyState' = [readyState EXCEPT ![s] = "OPEN"]
    /\ timer' = [timer EXCEPT ![s] = ClearTimer(@)]
    /\ connected' = TRUE
    /\ promise' = [promise EXCEPT ![s] = Settle(@, "resolved")]
    /\ first' = [first EXCEPT ![s] = Signal(@, "open")]
    /\ UNCHANGED <<ws, errPending, wire, lastSend, lastClose, lastDispatch>>
    /\ UNCHANGED appVars

\* the transport of a socket fails (handshake refused, connection reset): the
\* ws library will emit 'error' and then 'close'
WsFail(s) ==
    /\ Idle
    /\ readyState[s] \in {"CONNECTING", "OPEN"}
    /\ readyState' = [readyState EXCEPT ![s] = "CLOSING"]
    /\ errPending' = [errPending EXCEPT ![s] = TRUE]
    /\ UNCHANGED <<ws, connected, timer, promise, first, wire, lastSend, lastClose,
                   lastDispatch>>
    /\ UNCHANGED appVars

\* an 'error' listener that forgets to reject the promise
WsError_NoReject(s) ==
    /\ Idle
    /\ errPending[s]
    /\ errPending' = [errPending EXCEPT ![s] = FALSE]
    /\ timer' = [timer EXCEPT ![s] = ClearTimer(@)]
    /\ connected' = FALSE
    /\ first' = [first EXCEPT ![s] = Signal(@, "error")]
    /\ UNCHANGED <<ws, readyState, promise, wire, lastSend, lastClose, lastDispatch>>
    /\ UNCHANGED appVars

\* the socket's 'error' listener
WsError(s) ==
    /\ Idle
    /\ errPending[s]
    /\ errPending' = [errPending EXCEPT ![s] = FALSE]
    /\ timer' = [timer EXCEPT ![s] = ClearTimer(@)]
    /\ connected' = FALSE
    /\ promise' = [promise EXCEPT ![s] = Settle(@, "ConnectionError")]
    /\ first' = [first EXCEPT ![s] = Signal(@, "error")]
    /\ UNCHANGED <<ws, readyState, wire, lastSend, lastClose, lastDispatch>>
    /\ UNCHANGED appVars

\* the socket's 'close' listener: after a close() of this side, after an
\* error, or when the peer closes an open socket
WsClose(s) ==
    /\ Idle
    /\ \/ readyState[s] = "CLOSING" /\ ~errPending[s]
       \/ readyState[s] = "OPEN"
    /\ readyState' = [readyState EXCEPT ![s] = "CLOSED"]
    /\ connected' = FALSE
    /\ UNCHANGED <<ws, errPending, timer, promise, first, wire, lastSend, lastClose,
                   lastDispatch>>
    /\ UNCHANGED appVars

\* ws.close() of the ws library: aborts a handshake in progress (an 'error'
\* and a 'close' follow), starts the closing handshake of an open socket, and
\* does nothing on a closing or closed one.  It never throws.
SocketClose(rs) == IF rs \in {"CONNECTING", "OPEN"} THEN "CLOSING" ELSE rs

\* a close() that throws while the handshake is in progress
CloseResult_ThrowsInHandshake(rs) ==
    IF rs = "CONNECTING" THEN "CloseThrew" ELSE "returned"

\* what the call this.ws.close() comes to: it returns in every state of the
\* socket
CloseResult(rs) == "returned"

\* the fields disconnect() reads and writes
ClientState ==
    [ws |-> ws, connected |-> connected, readyState |-> readyState,
     errPending |-> errPending]

\* what a disconnect() call comes to: it returns, or the error of close()
\* leaves it
DisconnectResult(c) ==
    IF c.ws = 0 THEN "returned" ELSE CloseResult(c.readyState[c.ws])

\* the fields after disconnect(): with a socket, close it and clear the flag;
\* without one, nothing
Disconnected(c) ==
    IF c.ws # 0 /\ DisconnectResult(c) = "returned"
    THEN [c EXCEPT !.readyState[c.ws] = SocketClose(@),
                   !.errPending[c.ws] = @ \/ c.readyState[c.ws] = "CONNECTING",
                   !.connected = FALSE]
    ELSE c

\* disconnect()
disconnect ==
    /\ readyState' = Disconnected(ClientState).readyState
    /\ errPending' = Disconnected(ClientState).errPending
    /\ connected' = Disconnected(ClientState).connected
    /\ lastClose' = DisconnectResult(ClientState)
    /\ UNCHANGED <<ws, timer, promise, first>>

\* ---------------------------------------------------------- sendCommand()
\* the frame sendCommand serializes: { command, ...params }
Frame(command, params) == [command |-> command, params |-> params]

\* the text of a query: the words themselves, or a framing sentence that
\* names a server and an operation and carries the serialized parameters
QueryText(framing, op, body) == [framing |-> framing, op |-> op, body |-> body]
PlainQuery(text) == QueryText("plain", "-", <<text>>)

\* ws.send(data) of the ws library, without a callback: throws while the
\* socket is CONNECTING, writes when it is OPEN, and otherwise discards the
\* data silently.
SocketSend(rs) ==
    CASE rs = "CONNECTING" -> "SendThrew"
      [] rs = "OPEN" -> "written"
      [] OTHER -> "discarded"

\* what a sendCommand call made now comes to: the error it throws, or what
\* the socket does with the frame
SendResult ==
    IF ~connected THEN "NotConnected" ELSE SocketSend(readyState[ws])

\* sendCommand(command, params)
sendCommand(command, params) ==
    /\ lastSend' = [result |-> SendResult,
                    sock |-> IF SendResult = "NotConnected" THEN 0 ELSE ws]
    /\ wire' = IF SendResult = "written"
               THEN Append(wire, [sock |-> ws, frame |-> Frame(command, params)])
               ELSE wire
    /\ UNCHANGED <<clientVars, lastClose>>

\* ------------------------------------------------------- session store
SessionIds == {"s1", "s2"}

NoFile == [exists |-> FALSE, history |-> <<>>]

\* an entry of a history: { type, content } (and the time of the append)
Entry(type, content) == [type |-> type, content |-> content]

\* loadSession(sessionId): null when <sessionId>.json cannot be read
Exists(f, id) == id \in SessionIds /\ f[id].exists

\* saveSession(session) rewrites the file: it becomes the most recent one
Touch(order, id) == Append(SelectSeq(order, LAMBDA x : x # id), id)

\* a store that writes a new entry at the head of the history
addToHistory_Prepend(f, id, entry) ==
    IF Exists(f, id)
    THEN [f EXCEPT ![id].history = <<entry>> \o @]
    ELSE f

\* an append whose read came before the write of the append made just before
\* it: it pushes the entry on the history as the callback found it
addToHistory_StaleLoad(f, id, entry) ==
    IF Exists(f, id)
    THEN [f EXCEPT ![id].history = Append(files[id].history, entry)]
    ELSE f

\* addToHistory(sessionId, entry): load, push, save; nothing when the record
\* is missing
addToHistory(f, id, entry) ==
    IF Exists(f, id)
    THEN [f EXCEPT ![id].history = Append(@, entry)]
    ELSE f

\* the modification order after addToHistory(sessionId, entry)
addToHistoryOrder(f, order, id) ==
    IF Exists(f, id) THEN Touch(order, id) ELSE order

\* getHistory(sessionId)
getHistory(f, id) == IF Exists(f, id) THEN f[id].history ELSE <<>>

\* getLastSession(): the id of the most recently modified file, or null
getLastSession(order) ==
    IF order = <<>> THEN "none" ELSE order[Len(order)]

\* a file whose bytes do not parse as a session record: what is left of a
\* write that did not complete, or of two writes laid over each other
Torn == [exists |-> FALSE, history |-> <<[type |-> "?"]>>]

\* the session object createSession() saves: { id, created, history: [] }
NewSession_NotSaved == NoFile
NewSession == [exists |-> TRUE, history |-> <<>>]

\* a push of the entry as it was given, without the time
Stamped_Bare(entry, now) == entry

\* { ...entry, timestamp: new Date().toISOString() }
Stamped(entry, now) ==
    [type |-> entry.type, content |-> entry.content, timestamp |-> now]

\* what loadSession(sessionId) gives: the parsed record, or null when
\* readFileSync or JSON.parse throws
loadSession_ReadsThrough(f, id, fault) ==
    IF ~Exists(f, id) THEN "null" ELSE "record"
loadSession_NoCatch(f, id, fault) ==
    IF fault = "read" \/ ~Exists(f, id) THEN "raised" ELSE "record"
loadSession(f, id, fault) ==
    IF fault = "read" \/ ~Exists(f, id) THEN "null" ELSE "record"

\* the order of a scan after <id>.json is written while the files of `tied`
\* carry the same modification time: b.modified - a.modified is 0 among
\* them, and the sort, which is stable, leaves them as readdirSync lists
\* them: "s1" before "s2"
TouchTied(order, id, tied) ==
    LET group == tied \cup {id}
        readdir == <<"s1", "s2">>
        newest == [i \in 1..Len(readdir) |-> readdir[Len(readdir) + 1 - i]]
    IN SelectSeq(order, LAMBDA x : x \notin group)
       \o SelectSeq(newest, LAMBDA x : x \in group)

\* listSessions(limit): scan, sort by modification time, newest first, keep
\* the first `limit`; the record of each file is loaded for its count.  A
\* scan that throws gives [], a record that does not load counts 0.
listSessions_SliceOldest(f, order, limit, fault) ==
    IF fault = "scan"
    THEN <<>>
    ELSE [i \in 1..(IF limit < Len(order) THEN limit ELSE Len(order)) |->
            LET id == order[i]
            IN [id |-> id,
                historyCount |-> IF loadSession(f, id, fault) = "record"
                                 THEN Len(f[id].history) ELSE 0]]
listSessions(f, order, limit, fault) ==
    IF fault = "scan"
    THEN <<>>
    ELSE [i \in 1..(IF limit < Len(order) THEN limit ELSE Len(order)) |->
            LET id == order[Len(order) + 1 - i]
            IN [id |-> id,
                historyCount |-> IF loadSession(f, id, fault) = "record"
                                 THEN Len(f[id].history) ELSE 0]]

\* the processes that use the session directory
Procs == {"p1", "p2"}

\* a process that is in no call of the SessionManager; and the record kept
\* of a call: the entry it stamps, the history it loaded (before), the
\* record it writes (data)
NoCall ==
    [pc |-> "idle", op |-> "-", id |-> "none", entry |-> Stamped(Entry("-", <<>>), 0),
     before |-> <<>>, data |-> NoFile]

\* what a call returned to its caller
Returned(p, op, id, limit, fault, raised, saved, result) ==
    [proc |-> p, op |-> op, id |-> id, limit |-> limit, fault |-> fault,
     raised |-> raised, saved |-> saved, result |-> result]

\* the steps of a REPL handler, as lastOps records them in order: the line
\* read or the message received, each entry written to the store, the
\* classification of the line, each frame written to the socket
NoEntry == Entry("-", <<>>)
NoSent == Frame("-", <<>>)
OpLine(line) == [op |-> "line", text |-> line, entry |-> NoEntry, frame |-> NoSent]
OpReceive(type) == [op |-> "receive", text |-> type, entry |-> NoEntry, frame |-> NoSent]
OpAppend(entry) == [op |-> "append", text |-> "-", entry |-> entry, frame |-> NoSent]
OpClassify(type) == [op |-> "classify", text |-> type, entry |-> NoEntry, frame |-> NoSent]
OpSend(frame) == [op |-> "send", text |-> "-", entry |-> NoEntry, frame |-> frame]

\* a step of an exit path: the signal or interrupt that starts it, the
\* session summary, the disconnect() call, process.exit(status)
OpStep(step, text) == [op |-> step, text |-> text, entry |-> NoEntry, frame |-> NoSent]

\* the record lastOps keeps of addToHistory(sessionId, entry)
AppendOps(f, id, entry) ==
    IF Exists(f, id) THEN <<OpAppend(entry)>> ELSE <<>>

\* ------------------------------------------------- process-level handlers
\* the steps of a handler of a fault, as lastOps records them: the fault, the
\* report on the console, the disconnect() call, process.exit(1)
FaultOps(fault, disconnects) ==
    <<OpStep("fault", fault), OpStep("report", "-")>>
    \o (IF disconnects THEN <<OpStep("disconnect", "-")>> ELSE <<>>)
    \o <<OpStep("exit", "1")>>

\* process.on('uncaughtException') / process.on('unhandledRejection'):
\* report, disconnect, exit(1)
UncaughtException ==
    /\ disconnect
    /\ proc' = "exit1"
    /\ lastOps' = FaultOps("uncaught", TRUE)
    /\ UNCHANGED <<pc, subs, queryTimer>>
    /\ UNCHANGED <<files, mtimeOrder, argv, opts, storeVars, currentSessionId, isRunning>>

\* --------------------------------------------------- the generic channel
\* the member `response` of a decoded message, as BrainREPL.handleMessage
\* reads it
ResponseOf(message) ==
    IF message.body = "full" THEN <<"answer">> ELSE <<"undefined">>

\* a listener that records the text of an error frame as well
ReplListenerAppends_ErrorToo(message) ==
    TypeOf(message) \in {"query_response", "error"}

\* BrainREPL.handleMessage(message): only a query_response is recorded
ReplListenerAppends(message) == TypeOf(message) = "query_response"

\* this.emit('message', message): every listener of the generic channel runs.
\* The listener of the one-shot path is registered with once(): it is removed
\* when the first message is emitted, and it exits the process with status 0
\* if that message is a query_response.  The listener of the REPL appends the
\* response of a query_response to the history of the active session.
Emit(emitted) ==
    IF emitted = <<>> \/ subs = {}
    THEN UNCHANGED appVars
    ELSE LET m == emitted[1]
             e == Entry("response", ResponseOf(m))
             rec == "repl" \in subs /\ ReplListenerAppends(m)
         IN
         /\ subs' = subs \ {"once"}
         /\ proc' = IF "once" \in subs /\ TypeOf(m) = "query_response"
                    THEN "exit0" ELSE proc
         /\ files' = IF rec THEN addToHistory(files, currentSessionId, e) ELSE files
         /\ mtimeOrder' = IF rec
                          THEN addToHistoryOrder(files, mtimeOrder, currentSessionId)
                          ELSE mtimeOrder
         /\ lastOps' = IF "repl" \in subs
                       THEN <<OpReceive(TypeOf(m))>>
                            \o (IF rec THEN AppendOps(files, currentSessionId, e)
                                ELSE <<>>)
                       ELSE lastOps
         /\ UNCHANGED <<pc, queryTimer, argv, opts, storeVars, currentSessionId, isRunning>>

\* ------------------------------------------------- the client's operations
\* a call of connect() by a user of the client
Connect ==
    /\ connect
    /\ UNCHANGED <<wire, lastSend, lastDispatch>>
    /\ UNCHANGED appVars

\* a call of disconnect() by a user of the client
Disconnect ==
    /\ disconnect
    /\ UNCHANGED <<wire, lastSend, lastDispatch>>
    /\ UNCHANGED appVars

\* a call of sendCommand() by a user of the client
SendCommand(command, params) ==
    /\ sendCommand(command, params)
    /\ UNCHANGED lastDispatch
    /\ UNCHANGED appVars

\* an inbound frame on an open socket: the 'message' listener that connect()
\* put on that socket.  An exception that left the listener would reach the
\* process-level handler.
WsMessage(s, raw) ==
    /\ Idle
    /\ readyState[s] = "OPEN"
    /\ LET d == OnMessage(s, raw) IN
       /\ lastDispatch' =
             [sock |-> d.sock, raw |-> d.raw, handler |-> d.handler,
              emitted |-> d.emitted, logged |-> d.logged, caught |-> d.caught,
              escaped |-> d.escaped,
              dropsBefore |-> lastDispatch.dropsBefore
                              \/ JSONparse(lastDispatch.raw) = ParseError,
              raisedBefore |-> lastDispatch.raisedBefore
                               \/ (lastDispatch.caught
                                   /\ JSONparse(lastDispatch.raw) # ParseError)]
       /\ IF d.escaped
          THEN UncaughtException
          ELSE Emit(d.emitted) /\ UNCHANGED <<clientVars, lastClose>>
    /\ UNCHANGED <<wire, lastSend>>

\* ------------------------------------------------------- the client alone
\* new BrainClient()
InitClient ==
    /\ ws = 0
    /\ connected = FALSE
    /\ readyState = [s \in Sockets |-> "UNUSED"]
    /\ errPending = [s \in Sockets |-> FALSE]
    /\ timer = [s \in Sockets |-> "unset"]
    /\ promise = [s \in Sockets |-> "none"]
    /\ first = [s \in Sockets |-> "none"]
    /\ wire = <<>>
    /\ lastSend = [result |-> "none", sock |-> 0]
    /\ lastClose = "none"
    /\ lastDispatch = NoDispatch

\* no REPL is constructed and the session directory is empty
NoRepl ==
    /\ files = [id \in SessionIds |-> NoFile]
    /\ mtimeOrder = <<>>
    /\ argv = [continue |-> FALSE, resume |-> "none"]
    /\ opts = [continueSession |-> FALSE, sessionId |-> "none"]
    /\ currentSessionId = "none"
    /\ isRunning = FALSE
    /\ lastOps = <<>>
    /\ clock = 0
    /\ written = {}
    /\ call = [p \in Procs |-> NoCall]
    /\ lastCall = Returned("-", "-", "none", 0, "none", FALSE, "-", <<>>)
    /\ parsed = <<>>

\* a process that only uses the client: no main routine, no listener
Init ==
    /\ InitClient
    /\ proc = "running"
    /\ pc = "-"
    /\ subs = {}
    /\ queryTimer = "unset"
    /\ NoRepl

ClientCommand == Frame("get_servers", <<>>)

\* the calls are bounded by the frames they put on the wire: a call that
\* writes nothing is always possible
WireFull == connected /\ readyState[ws] = "OPEN" /\ Len(wire) >= MaxSends

Next ==
    \/ Connect
    \/ Disconnect
    \/ ~WireFull /\ SendCommand(ClientCommand.command, ClientCommand.params)
    \/ \E s \in Sockets : TimerFire(s)
    \/ \E s \in Sockets : WsOpen(s)
    \/ \E s \in Sockets : WsFail(s)
    \/ \E s \in Sockets : WsError(s)
    \/ \E s \in Sockets : WsClose(s)
    \/ \E s \in Sockets : WsMessage(s, Raw("object", "thinking", "full"))

Spec == Init /\ [][Next]_vars

\* Node fires a timer that is armed and not cleared
FairSpec == Init /\ [][Next]_vars /\ \A s \in Sockets : WF_vars(TimerFire(s))

\* ------------------------------------------- inbound dispatch, one socket
\* client.on('message', listener), by a user of the client whose listener
\* throws
On ==
    /\ proc = "running"
    /\ "throws" \notin subs
    /\ subs' = subs \cup {"throws"}
    /\ UNCHANGED <<clientVars, wire, lastSend, lastClose, lastDispatch>>
    /\ UNCHANGED <<proc, pc, queryTimer>>
    /\ UNCHANGED replVars

\* one connect() call, a listener on the generic channel, and every kind of
\* inbound frame
NextDispatch ==
    \/ ws = 0 /\ Connect
    \/ On
    \/ Disconnect
    \/ \E s \in Sockets : TimerFire(s)
    \/ \E s \in Sockets : WsOpen(s)
    \/ \E s \in Sockets : WsFail(s)
    \/ \E s \in Sockets : WsError(s)
    \/ \E s \in Sockets : WsClose(s)
    \/ \E s \in Sockets, raw \in RawFrames : WsMessage(s, raw)

DispatchSpec == Init /\ [][NextDispatch]_vars

\* ------------------------------------------------- the one-shot print path

\* main(), print mode: await brainClient.connect()
OneShotStart ==
    /\ proc = "running"
    /\ pc = "start"
    /\ connect
    /\ pc' = "awaitConnect"
    /\ UNCHANGED <<wire, lastSend, lastDispatch, proc, subs, queryTimer>>
    /\ UNCHANGED replVars

\* connect() resolved: sendQuery(query), then once('message', ...) and the
\* 30 s timer; an exception of sendQuery goes to the catch block, exit(1)
OneShotConnected ==
    /\ proc = "running"
    /\ pc = "awaitConnect"
    /\ promise[ws] = "resolved"
    /\ sendCommand("query", <<PlainQuery("q")>>)  \* the query of the command line
    /\ IF SendResult \in {"NotConnected", "SendThrew"}
       THEN /\ proc' = "exit1"
            /\ UNCHANGED <<pc, subs, queryTimer>>
       ELSE /\ subs' = subs \cup {"once"}
            /\ queryTimer' = "armed"
            /\ pc' = "waiting"
            /\ proc' = proc
    /\ UNCHANGED lastDispatch
    /\ UNCHANGED replVars

\* connect() rejected: the catch block, exit(1)
OneShotConnectFailed ==
    /\ proc = "running"
    /\ pc = "awaitConnect"
    /\ promise[ws] \in {"ConnectionTimeout", "ConnectionError"}
    /\ proc' = "exit1"
    /\ lastOps' = FaultOps(promise[ws], FALSE)
    /\ UNCHANGED <<clientVars, wire, lastSend, lastClose, lastDispatch, pc, subs,
                   queryTimer>>
    /\ UNCHANGED <<files, mtimeOrder, argv, opts, storeVars, currentSessionId, isRunning>>

\* the 30 s timer of print mode: exit(1)
QueryTimeout ==
    /\ Idle
    /\ queryTimer = "armed"
    /\ queryTimer' = "fired"
    /\ proc' = "exit1"
    /\ UNCHANGED <<clientVars, wire, lastSend, lastClose, lastDispatch, pc, subs>>
    /\ UNCHANGED replVars

\* process.on('SIGINT'): disconnect, exit(0)
Sigint ==
    /\ Idle
    /\ pc \notin {"start", "replStart"}
    /\ disconnect
    /\ proc' = "exit0"
    /\ lastOps' = <<OpStep("SIGINT", "-"), OpStep("disconnect", "-"),
                    OpStep("exit", "0")>>
    /\ UNCHANGED <<wire, lastSend, lastDispatch, pc, subs, queryTimer>>
    /\ UNCHANGED <<files, mtimeOrder, argv, opts, storeVars, currentSessionId, isRunning>>

InitOneShot ==
    /\ InitClient
    /\ proc = "running"
    /\ pc = "start"
    /\ subs = {}
    /\ queryTimer = "unset"
    /\ NoRepl

\* the frames the remote runtime sends while it answers a query
OneShotFrames ==
    {Raw("object", ty, "full") : ty \in {"thinking", "status", "error", "query_response"}}
    \cup {Raw("malformed", "-", "-")}

NextOneShot ==
    \/ OneShotStart
    \/ OneShotConnected
    \/ OneShotConnectFailed
    \/ QueryTimeout
    \/ Sigint
    \/ \E s \in Sockets : TimerFire(s)
    \/ \E s \in Sockets : WsOpen(s)
    \/ \E s \in Sockets : WsFail(s)
    \/ \E s \in Sockets : WsError(s)
    \/ \E s \in Sockets : WsClose(s)
    \/ \E s \in Sockets, raw \in OneShotFrames : WsMessage(s, raw)

OneShotSpec == InitOneShot /\ [][NextOneShot]_vars

\* Node runs a continuation that is ready and fires a timer that is armed
OneShotFairSpec ==
    /\ InitOneShot
    /\ [][NextOneShot]_vars
    /\ WF_vars(OneShotStart)
    /\ WF_vars(OneShotConnected)
    /\ WF_vars(OneShotConnectFailed)
    /\ WF_vars(QueryTimeout)
    /\ \A s \in Sockets : WF_vars(TimerFire(s))

\* ------------------------------------------------------------- the REPL
\* bound on the length of a session history
MaxHistory == 3

\* the lines typed at the prompt of the sessions explored as a whole
Lines ==
    {<<>>, <<"exit">>, <<"help">>, <<"status">>, <<"hello">>,
     <<"read", "a.txt">>, <<"servers">>}

\* the lines typed at the prompt of the sessions explored line by line: the
\* special commands, lines of every
\* kind of the parser, the examples of the help text, and lines no rule
\* matches
TestLines ==
    Lines \cup
    {<<"HELP">>, <<"clear">>, <<"history">>, <<"Quit">>, <<"sessions">>,
     <<"sessions", "list">>,
     <<"show", "a.txt">>, <<"write", "to", "file", "b.txt">>,
     <<"edit", "a.txt">>, <<"ls">>, <<"listen", "up">>,
     <<"search", "for", "'foo'", "in", "/p">>, <<"find", "'foo'">>,
     <<"search", "foo", "in", "/p">>, <<"mkdir", "/p">>,
     <<"git", "status">>, <<"show", "status">>, <<"git", "diff">>,
     <<"diff", "for", "a.txt">>, <<"git", "log", "5">>, <<"log">>,
     <<"git", "add", "a.txt", "b.txt">>, <<"git", "commit", "-m", "'msg'">>,
     <<"git", "commit", "\"fix", "bug\"">>, <<"branch">>, <<"git", "push">>,
     <<"analyze", "project">>, <<"explain", "this", "codebase">>,
     <<"structure">>, <<"find", "definition", "of", "MyClass">>,
     <<"find", "references", "to", "MyClass">>, <<"find", "MyClass">>,
     <<"what", "is", "MyClass">>, <<"what", "is", "a.txt">>,
     <<"connect", "to", "server", "exa", "with", "config", "cfg">>,
     <<"connect", "exa", "cfg">>, <<"list", "servers">>,
     <<"show", "servers">>, <<"tools", "exa">>,
     <<"list", "tools", "from", "server", "exa">>,
     <<"query:", "hello">>, <<"explain", "git">>, <<"hello", "ai?">>,
     <<"hi", "there">>, <<"fix", "my", "profile">>}

\* the example lines of the help text, each with the operation the help text
\* gives for it
HelpExamples ==
    {[line |-> <<"read", "file.txt">>, kind |-> "read_file"],
     [line |-> <<"edit", "src/app.js">>, kind |-> "edit_file"],
     [line |-> <<"list", ".">>, kind |-> "list_directory"],
     [line |-> <<"ls">>, kind |-> "list_directory"],
     [line |-> <<"search", "for", "function", "in", "src">>, kind |-> "search_files"],
     [line |-> <<"create", "directory", "new_dir">>, kind |-> "create_directory"],
     [line |-> <<"git", "status">>, kind |-> "git_status"],
     [line |-> <<"status">>, kind |-> "git_status"],
     [line |-> <<"git", "diff">>, kind |-> "git_diff"],
     [line |-> <<"diff">>, kind |-> "git_diff"],
     [line |-> <<"git", "log">>, kind |-> "git_log"],
     [line |-> <<"history">>, kind |-> "git_log"],
     [line |-> <<"add", "file.txt">>, kind |-> "git_add"],
     [line |-> <<"commit", "\"message\"">>, kind |-> "git_commit"],
     [line |-> <<"branches">>, kind |-> "git_branch_info"],
     [line |-> <<"analyze", "project">>, kind |-> "analyze_project"],
     [line |-> <<"explain", "codebase">>, kind |-> "explain_codebase"],
     [line |-> <<"show", "structure">>, kind |-> "get_project_structure"],
     [line |-> <<"find", "definition", "MyClass">>, kind |-> "find_definition"],
     [line |-> <<"find", "references", "myFunction">>, kind |-> "find_references"],
     [line |-> <<"connect", "server", "exa", "with", "/path">>,
      kind |-> "connect_server"],
     [line |-> <<"list", "servers">>, kind |-> "list_servers"],
     [line |-> <<"tools", "from", "server_name">>, kind |-> "list_tools"],
     [line |-> <<"what", "is", "artificial", "intelligence?">>, kind |-> "query"],
     [line |-> <<"explain", "this", "error", "message">>, kind |-> "query"]}

\* ------------------------------------------------------- the classifier
\* A line of input is the sequence of its words: the text trimmed and split
\* at white space.  The regular expressions of the parser are matched on the
\* words; what they need of the characters of a word is given word by word.

\* String.toLowerCase() on a word
Lower(w) ==
    CASE w = "HELP" -> "help"
      [] w = "Read" -> "read"
      [] w = "Quit" -> "quit"
      [] OTHER -> w

\* words that are \w+ : letters, digits and underscores only
IsWord(w) ==
    w \notin
    {"a.txt", "b.txt", "/p", "'msg'", "'foo'", "\"fix", "bug\"", "ai?", "-m",
     "query:", "ask:", ".", "file.txt", "src/app.js", "\"message\"", "/path",
     "intelligence?"}

\* words that are \d+
IsDigits(w) == w \in {"5"}

\* words that begin, and words that end, with a quote character
StartsQuote(w) == w \in {"'msg'", "'foo'", "\"fix", "\"message\""}
EndsQuote(w) == w \in {"'msg'", "'foo'", "bug\"", "\"message\""}

\* a word without the quote character at its start and at its end
Unquote(w) ==
    CASE w = "'msg'" -> "msg"
      [] w = "'foo'" -> "foo"
      [] w = "\"fix" -> "fix"
      [] w = "bug\"" -> "bug"
      [] w = "\"message\"" -> "message"
      [] OTHER -> w

\* words that end with a question mark
EndsQuestion(w) == w \in {"ai?", "intelligence?"}

\* words that contain one of the keywords of isDevelopmentCommand (read,
\* write, edit, file, list, search, find, git, status, diff, commit, add,
\* stage, analyze, explain, structure, definition, references)
DevWords ==
    {"read", "write", "edit", "file", "list", "listen", "search", "find",
     "git", "status", "diff", "commit", "add", "stage", "analyze", "explain",
     "structure", "definition", "references", "profile", "address",
     "file.txt"}

\* the value of a capture group that did not take part in the match, and of
\* a member that is not there
Undefined == <<>>

\* the words of words from the i-th on
Rest(words, i) == SubSeq(words, i, Len(words))

\* the i-th word of words is one of the keywords, whatever the case
Kw(words, i, keywords) == i \in 1..Len(words) /\ Lower(words[i]) \in keywords

\* a member of a Command: its name and its value
Member(k, v) == [k |-> k, v |-> v]

\* a rule that did not match, and the Command of a rule that did
NoMatch == [match |-> FALSE, type |-> "-", members |-> <<>>]
Match(type, members) == [match |-> TRUE, type |-> type, members |-> members]

\* a group that keeps the quote characters around the words
StripQuotes_KeepsQuotes(words) == words

\* the words between the quotes of a quoted run of words
StripQuotes(words) ==
    [i \in 1..Len(words) |->
        IF i = 1 \/ i = Len(words) THEN Unquote(words[i]) ELSE words[i]]

\* ["'](.+)["']$ on the words from the i-th on
Quoted(words, i) ==
    /\ i <= Len(words)
    /\ StartsQuote(words[i])
    /\ EndsQuote(words[Len(words)])

\* ---- the parts of a pattern
\* A pattern is read as a run of parts, each matched on one word, and a tail
\* matched on the words that are left.  A part is a keyword that must be
\* there ("req"), a keyword in an optional group (?:keyword\s+)? ("opt"), a
\* (\w+) group ("word") or a (\S+) group ("nonspace").
Part(kind, keywords) == [kind |-> kind, kw |-> keywords]

\* a pattern that did not match, and the groups of one that did
NoGroups == [match |-> FALSE, groups |-> <<>>]
Groups(groups) == [match |-> TRUE, groups |-> groups]

\* the positions at which the lazy quoted group can end, counted from i: at
\* a word that ends with a quote and is the last one or is followed by `in`
\* and more
QuoteEnds(words, i) ==
    {e \in i..Len(words) :
        /\ EndsQuote(words[e])
        /\ e = Len(words) \/ (Kw(words, e + 1, {"in"}) /\ e + 2 <= Len(words))}

\* the tail of a pattern on the words from the i-th on, with its groups:
\*   end       $
\*   rest      (.+)$
\*   optrest   (?:\s+(.+))?$
\*   limit     (?:\s+(\d+))?$
\*   inrest    (?:\s+in\s+(.+))?$
\*   quoted    ["'](.+)["']$
\*   quotedin  ["'](.+?)["'](?:\s+in\s+(.+))?$
\*   listrest  ^(?:list|ls|dir)\s*(.*)$, on the line as a whole
\*   more      \s+ and more of the line, the group being match.input
\*   question  \?$, the group being match.input
Ending(words, i, tail) ==
    CASE tail = "end" ->
            IF i = Len(words) + 1 THEN Groups(<<>>) ELSE NoGroups
      [] tail = "rest" ->
            IF i <= Len(words) THEN Groups(<<Rest(words, i)>>) ELSE NoGroups
      [] tail = "optrest" -> Groups(<<Rest(words, i)>>)
      [] tail = "limit" ->
            IF i = Len(words) + 1 THEN Groups(<<Undefined>>)
            ELSE IF i = Len(words) /\ IsDigits(words[i])
            THEN Groups(<<<<words[i]>>>>)
            ELSE NoGroups
      [] tail = "inrest" ->
            IF i = Len(words) + 1 THEN Groups(<<Undefined>>)
            ELSE IF Kw(words, i, {"in"}) /\ i + 1 <= Len(words)
            THEN Groups(<<Rest(words, i + 1)>>)
            ELSE NoGroups
      [] tail = "quoted" ->
            IF Quoted(words, i) THEN Groups(<<StripQuotes(Rest(words, i))>>)
            ELSE NoGroups
      [] tail = "quotedin" ->
            IF i <= Len(words) /\ StartsQuote(words[i]) /\ QuoteEnds(words, i) # {}
            THEN LET e == CHOOSE e \in QuoteEnds(words, i) :
                              \A j \in QuoteEnds(words, i) : e <= j
                 IN Groups(<<StripQuotes(SubSeq(words, i, e)),
                             Rest(words, e + 2)>>)
            ELSE NoGroups
      [] tail = "listrest" ->
            \* the first word begins with list, ls or dir, whatever the
            \* case: the group is what follows in the word, and the rest
            IF i = 1 /\ Len(words) >= 1
               /\ Lower(words[1]) \in {"list", "ls", "dir", "listen"}
            THEN Groups(<<(IF Lower(words[1]) = "listen" THEN <<"en">> ELSE <<>>)
                          \o Rest(words, 2)>>)
            ELSE NoGroups
      [] tail = "more" ->
            IF i <= Len(words) THEN Groups(<<words>>) ELSE NoGroups
      [] tail = "question" ->
            IF Len(words) >= 1 /\ EndsQuestion(words[Len(words)])
            THEN Groups(<<words>>)
            ELSE NoGroups

\* String.match on the words from the i-th on and the parts from the j-th
\* on: a part takes a word when it can; an optional part that took a word
\* with which the rest cannot match gives it back
RECURSIVE Try(_, _, _, _, _, _)
Try(words, i, parts, j, tail, captured) ==
    IF j > Len(parts)
    THEN LET t == Ending(words, i, tail) IN
         IF t.match THEN Groups(captured \o t.groups) ELSE NoGroups
    ELSE LET p == parts[j]
             fits == /\ i <= Len(words)
                     /\ CASE p.kind \in {"req", "opt"} -> Lower(words[i]) \in p.kw
                          [] p.kind = "word" -> IsWord(words[i])
                          [] p.kind = "nonspace" -> TRUE
             take == IF fits
                     THEN Try(words, i + 1, parts, j + 1, tail,
                              IF p.kind \in {"word", "nonspace"}
                              THEN Append(captured, <<words[i]>>)
                              ELSE captured)
                     ELSE NoGroups
         IN IF take.match THEN take
            ELSE IF p.kind = "opt"
            THEN Try(words, i, parts, j + 1, tail, captured)
            ELSE NoGroups

\* an entry of this.patterns: the pattern as parts and tail, the type, and
\* what extract makes of the groups in order: the name of the member and the
\* value it takes when the group is undefined or empty
Rule(parts, tail, type, extract) ==
    [parts |-> parts, tail |-> tail, type |-> type, extract |-> extract]
To(name) == [k |-> name, d |-> Undefined]
ToOr(name, default) == [k |-> name, d |-> <<default>>]

\* the words that open a question
QuestionWords ==
    {"what", "how", "why", "when", "where", "who", "can", "could", "would",
     "should", "is", "are", "do", "does", "did", "will", "explain", "tell",
     "describe"}

\* this.patterns, in the order of the list.  A pattern with a nested
\* optional group is written as its alternatives, in the order in which the
\* match tries them.
patterns ==
    << \* /^(?:read|show|cat|view)\s+(?:file\s+)?(.+)$/i
       Rule(<<Part("req", {"read", "show", "cat", "view"}),
              Part("opt", {"file"})>>, "rest", "read_file", <<To("filePath")>>),
       \* /^(?:write|save)\s+(?:to\s+)?(?:file\s+)?(.+)$/i
       Rule(<<Part("req", {"write", "save"}), Part("opt", {"to"}),
              Part("opt", {"file"})>>, "rest", "write_file", <<To("filePath")>>),
       \* /^(?:edit|modify)\s+(?:file\s+)?(.+)$/i
       Rule(<<Part("req", {"edit", "modify"}), Part("opt", {"file"})>>,
            "rest", "edit_file", <<To("filePath")>>),
       \* /^(?:list|ls|dir)\s*(.*)$/i, path: match[1].trim() || '.'
       Rule(<<>>, "listrest", "list_directory", <<ToOr("path", ".")>>),
       \* /^(?:search|find|grep)\s+(?:for\s+)?["'](.+?)["'](?:\s+in\s+(.+))?$/i
       Rule(<<Part("req", {"search", "find", "grep"}), Part("opt", {"for"})>>,
            "quotedin", "search_files",
            <<To("pattern"), ToOr("directory", ".")>>),
       \* /^(?:search|find|grep)\s+(?:for\s+)?(\S+)(?:\s+in\s+(.+))?$/i
       Rule(<<Part("req", {"search", "find", "grep"}), Part("opt", {"for"}),
              Part("nonspace", {})>>, "inrest", "search_files",
            <<To("pattern"), ToOr("directory", ".")>>),
       \* /^(?:create|mkdir)\s+(?:directory\s+)?(.+)$/i
       Rule(<<Part("req", {"create", "mkdir"}), Part("opt", {"directory"})>>,
            "rest", "create_directory", <<To("path")>>),
       \* /^git\s+status$/i
       Rule(<<Part("req", {"git"}), Part("req", {"status"})>>, "end",
            "git_status", <<>>),
       \* /^(?:git\s+)?(?:show\s+)?(?:status|st)$/i
       Rule(<<Part("opt", {"git"}), Part("opt", {"show"}),
              Part("req", {"status", "st"})>>, "end", "git_status", <<>>),
       \* /^git\s+diff(?:\s+(.+))?$/i, filePath: match[1]?.trim()
       Rule(<<Part("req", {"git"}), Part("req", {"diff"})>>, "optrest",
            "git_diff", <<To("filePath")>>),
       \* /^(?:show\s+)?diff(?:\s+(?:for\s+)?(.+))?$/i: with the group, and
       \* without it
       Rule(<<Part("opt", {"show"}), Part("req", {"diff"}),
              Part("opt", {"for"})>>, "rest", "git_diff", <<To("filePath")>>),
       Rule(<<Part("opt", {"show"}), Part("req", {"diff"})>>, "optrest",
            "git_diff", <<To("filePath")>>),
       \* /^git\s+log(?:\s+(\d+))?$/i, limit: parseInt(match[1]) || 10
       Rule(<<Part("req", {"git"}), Part("req", {"log"})>>, "limit",
            "git_log", <<ToOr("limit", "10")>>),
       \* /^(?:show\s+)?(?:git\s+)?(?:history|log)(?:\s+(\d+))?$/i
       Rule(<<Part("opt", {"show"}), Part("opt", {"git"}),
              Part("req", {"history", "log"})>>, "limit", "git_log",
            <<ToOr("limit", "10")>>),
       \* /^git\s+add\s+(.+)$/i, files: match[1].trim().split(/\s+/)
       Rule(<<Part("req", {"git"}), Part("req", {"add"})>>, "rest",
            "git_add", <<To("files")>>),
       \* /^(?:stage|add)\s+(.+)$/i
       Rule(<<Part("req", {"stage", "add"})>>, "rest", "git_add",
            <<To("files")>>),
       \* /^git\s+commit\s+(?:-m\s+)?["'](.+)["']$/i
       Rule(<<Part("req", {"git"}), Part("req", {"commit"}),
              Part("opt", {"-m"})>>, "quoted", "git_commit", <<To("message")>>),
       \* /^commit\s+["'](.+)["']$/i
       Rule(<<Part("req", {"commit"})>>, "quoted", "git_commit",
            <<To("message")>>),
       \* /^(?:git\s+)?(?:branch|branches)$/i
       Rule(<<Part("opt", {"git"}), Part("req", {"branch", "branches"})>>,
            "end", "git_branch_info", <<>>),
       \* /^(?:analyze|analysis)\s+(?:project|codebase)$/i
       Rule(<<Part("req", {"analyze", "analysis"}),
              Part("req", {"project", "codebase"})>>, "end",
            "analyze_project", <<>>),
       \* /^(?:explain|describe)\s+(?:this\s+)?(?:project|codebase|architecture)$/i
       Rule(<<Part("req", {"explain", "describe"}), Part("opt", {"this"}),
              Part("req", {"project", "codebase", "architecture"})>>, "end",
            "explain_codebase", <<>>),
       \* /^(?:show\s+)?(?:project\s+)?structure$/i
       Rule(<<Part("opt", {"show"}), Part("opt", {"project"}),
              Part("req", {"structure"})>>, "end", "get_project_structure",
            <<>>),
       \* /^(?:find|search)\s+(?:definition\s+(?:of\s+)?)?(\w+)(?:\s+in\s+(.+))?$/i:
       \* with `definition`, and without it
       Rule(<<Part("req", {"find", "search"}), Part("req", {"definition"}),
              Part("opt", {"of"}), Part("word", {})>>, "inrest",
            "find_definition", <<To("symbol"), To("filePath")>>),
       Rule(<<Part("req", {"find", "search"}), Part("word", {})>>, "inrest",
            "find_definition", <<To("symbol"), To("filePath")>>),
       \* /^(?:find|search)\s+(?:references\s+(?:to\s+)?)?(\w+)(?:\s+in\s+(.+))?$/i:
       \* with `references`, and without it
       Rule(<<Part("req", {"find", "search"}), Part("req", {"references"}),
              Part("opt", {"to"}), Part("word", {})>>, "inrest",
            "find_references", <<To("symbol"), To("filePath")>>),
       Rule(<<Part("req", {"find", "search"}), Part("word", {})>>, "inrest",
            "find_references", <<To("symbol"), To("filePath")>>),
       \* /^(?:where\s+is|what\s+is)\s+(\w+)(?:\s+(?:defined|used))?$/i
       Rule(<<Part("req", {"where", "what"}), Part("req", {"is"}),
              Part("word", {}), Part("opt", {"defined", "used"})>>, "end",
            "find_definition", <<To("symbol")>>),
       \* /^connect\s+(?:to\s+)?server\s+(\w+)\s+(?:with\s+)?(?:config\s+)?(.+)$/i
       Rule(<<Part("req", {"connect"}), Part("opt", {"to"}),
              Part("req", {"server"}), Part("word", {}), Part("opt", {"with"}),
              Part("opt", {"config"})>>, "rest", "connect_server",
            <<To("serverId"), To("config")>>),
       \* /^connect\s+(\w+)\s+(.+)$/i
       Rule(<<Part("req", {"connect"}), Part("word", {})>>, "rest",
            "connect_server", <<To("serverId"), To("config")>>),
       \* /^(?:list|show)\s+servers?$/i
       Rule(<<Part("req", {"list", "show"}), Part("req", {"server", "servers"})>>,
            "end", "list_servers", <<>>),
       \* /^servers?$/i
       Rule(<<Part("req", {"server", "servers"})>>, "end", "list_servers", <<>>),
       \* /^(?:list|show)\s+tools?\s+(?:from\s+)?(?:server\s+)?(\w+)$/i
       Rule(<<Part("req", {"list", "show"}), Part("req", {"tool", "tools"}),
              Part("opt", {"from"}), Part("opt", {"server"}), Part("word", {})>>,
            "end", "list_tools", <<To("serverId")>>),
       \* /^tools?\s+(?:from\s+)?(\w+)$/i
       Rule(<<Part("req", {"tool", "tools"}), Part("opt", {"from"}),
              Part("word", {})>>, "end", "list_tools", <<To("serverId")>>),
       \* /^query:\s*(.+)$/i, the prefix written as a word of its own
       Rule(<<Part("req", {"query:"})>>, "rest", "query", <<To("query")>>),
       \* /^ask:\s*(.+)$/i
       Rule(<<Part("req", {"ask:"})>>, "rest", "query", <<To("query")>>),
       \* /^(?:what|how|...|describe)\s+/i, query: match.input
       Rule(<<Part("req", QuestionWords)>>, "more", "query", <<To("query")>>),
       \* /\?$/, query: match.input
       Rule(<<>>, "question", "query", <<To("query")>>) >>

\* trimmedInput.match(pattern) and extract(match) for one entry of the list
Apply(rule, words) ==
    LET m == Try(words, 1, rule.parts, 1, rule.tail, <<>>) IN
    IF ~m.match THEN NoMatch
    ELSE Match(rule.type,
               [n \in 1..Len(rule.extract) |->
                   Member(rule.extract[n].k,
                          IF m.groups[n] = Undefined THEN rule.extract[n].d
                          ELSE m.groups[n])])

\* a loop of parse in which the last rule that matches returns its Command
FirstMatch_LastWins(i, words) ==
    LET hits == {k \in i..Len(patterns) : Apply(patterns[k], words).match}
    IN IF hits = {} THEN Match("unknown", <<Member("input", words)>>)
       ELSE Apply(patterns[CHOOSE k \in hits : \A j \in hits : j <= k], words)

\* the loop of parse over the entries from the i-th on: the first that
\* matches returns its Command
RECURSIVE FirstMatch(_, _)
FirstMatch(i, words) ==
    IF i > Len(patterns) THEN Match("unknown", <<Member("input", words)>>)
    ELSE IF Apply(patterns[i], words).match THEN Apply(patterns[i], words)
    ELSE FirstMatch(i + 1, words)

\* a parser that keeps its place in the list from one call to the next: the
\* scan of a call starts one entry further than the scan of the call before
parse_KeepsPlace(words) == FirstMatch(Len(parsed) + 1, words)

\* a parse that raises when no rule matches
parse_RaisesOnNoMatch(words) ==
    IF FirstMatch(1, words).type = "unknown"
    THEN [match |-> FALSE, type |-> "raised", members |-> <<>>]
    ELSE FirstMatch(1, words)

\* CommandParser.parse: the Command of the first rule that matches, and
\* { type: 'unknown', input } when none does
parse(words) == FirstMatch(1, words)

\* the Command of each line typed, parsed once
Commands == [line \in TestLines |-> parse(line)]

\* CommandParser.isDevelopmentCommand: the lowered input includes one of the
\* keywords
isDevelopmentCommand(words) == \E i \in DOMAIN words : Lower(words[i]) \in DevWords

\* command.<name>: the value of a member of a Command
Get(command, name) ==
    IF \E i \in DOMAIN command.members : command.members[i].k = name
    THEN command.members[CHOOSE i \in DOMAIN command.members :
                             command.members[i].k = name].v
    ELSE Undefined

\* ------------------------------------------------------ processInput()
\* !input.trim(): the line is skipped
Blank(words) == words = <<>>

\* input.toLowerCase() === 'exit' || input.toLowerCase() === 'quit'
IsExit(words) == Len(words) = 1 /\ Lower(words[1]) \in {"exit", "quit"}

\* special commands compared without toLowerCase()
Special_CaseSensitive(words) ==
    \/ /\ Len(words) = 1
       /\ words[1] \in {"exit", "quit", "help", "status", "clear", "history"}
    \/ Len(words) >= 1 /\ words[1] = "sessions"

\* the special commands processInput handles before parsing: the line is one
\* of six words, whatever the case, or begins with `sessions`
Special(words) ==
    \/ /\ Len(words) = 1
       /\ Lower(words[1]) \in {"exit", "quit", "help", "status", "clear", "history"}
    \/ Len(words) >= 1 /\ Lower(words[1]) \in {"sessions"}

\* the kinds of the three groups of the switch that go through a handler of
\* their server, and the kinds that go to the client directly
FileKinds ==
    {"read_file", "write_file", "edit_file", "list_directory", "search_files",
     "create_directory"}
GitKinds ==
    {"git_status", "git_diff", "git_log", "git_add", "git_commit",
     "git_branch_info"}
CodebaseKinds ==
    {"analyze_project", "explain_codebase", "get_project_structure",
     "find_definition", "find_references"}
ServerKinds == {"connect_server", "list_servers", "list_tools"}

\* the server named by handleFileOperation, handleGitOperation and
\* handleCodebaseOperation
ServerOf(type) ==
    CASE type \in FileKinds -> "filesystem"
      [] type \in GitKinds -> "git"
      [] type \in CodebaseKinds -> "codebase"

\* the params object each case of the switch builds from the Command
Params(c) ==
    CASE c.type \in {"read_file", "write_file", "edit_file"} ->
            <<Member("path", Get(c, "filePath"))>>
      [] c.type \in {"list_directory", "create_directory"} ->
            <<Member("path", Get(c, "path"))>>
      [] c.type = "search_files" ->
            <<Member("pattern", Get(c, "pattern")),
              Member("directory", Get(c, "directory"))>>
      [] c.type = "git_diff" -> <<Member("file_path", Get(c, "filePath"))>>
      [] c.type = "git_log" -> <<Member("limit", Get(c, "limit"))>>
      [] c.type = "git_add" ->
            <<Member("file_paths", <<"[">> \o Get(c, "files") \o <<"]">>)>>
      [] c.type = "git_commit" -> <<Member("message", Get(c, "message"))>>
      [] c.type \in {"find_definition", "find_references"} ->
            <<Member("symbol", Get(c, "symbol")),
              Member("file_path", Get(c, "filePath"))>>
      [] OTHER -> <<>>

\* the members of an object as JSON.stringify writes them: a member whose
\* value is undefined is left out
RECURSIVE JSONmembers(_)
JSONmembers(members) ==
    IF members = <<>> THEN <<>>
    ELSE LET m == Head(members)
             rest == JSONmembers(Tail(members))
         IN IF m.v = Undefined THEN rest
            ELSE <<m.k, ":">> \o m.v
                 \o (IF rest = <<>> THEN <<>> ELSE <<",">> \o rest)

\* JSON.stringify(params)
JSONstringify(members) == <<"{">> \o JSONmembers(members) \o <<"}">>

\* a handler that names the operation and leaves the parameters out
OperationQuery_NoParams(c) ==
    QueryText(ServerOf(c.type), c.type, JSONstringify(<<>>))

\* `Use the <server> server to perform: <operation> with parameters: <json>`
OperationQuery(c) ==
    QueryText(ServerOf(c.type), c.type, JSONstringify(Params(c)))

\* a development query sent without its framing
DevelopmentQuery_Verbatim(words) == QueryText("plain", "-", words)

\* `As a development assistant, help with: <input>`
DevelopmentQuery(words) == QueryText("development", "-", words)

\* server kinds rewritten into a query like the kinds of the other groups
ServerCommand_AsQuery(c) ==
    Frame("query", <<QueryText("server", c.type, JSONstringify(c.members))>>)

\* what each server kind hands to sendCommand: connectServer(), listServers()
\* and listTools() of the client
ServerCommand(c) ==
    CASE c.type = "connect_server" ->
            Frame("connect_server",
                  <<Member("server_id", Get(c, "serverId")),
                    Member("server_config", Get(c, "config"))>>)
      [] c.type = "list_servers" -> Frame("get_servers", <<>>)
      [] c.type = "list_tools" ->
            Frame("list_tools", <<Member("server_id", Get(c, "serverId"))>>)

\* what processInput does with a line after recording it: the class it
\* falls in, the entry its handler adds, the frame its handler hands to
\* sendCommand
Route(words) ==
    LET c == IF words \in DOMAIN Commands THEN Commands[words]
             ELSE parse(words)
    IN
    CASE Special(words) ->
            [type |-> "special", entries |-> <<>>,
             frames |-> IF Lower(words[1]) = "status" /\ Len(words) = 1 /\ connected
                        THEN <<Frame("get_servers", <<>>)>> ELSE <<>>]
      [] ~Special(words) /\ c.type \in FileKinds \cup GitKinds \cup CodebaseKinds ->
            [type |-> c.type, entries |-> <<>>,
             frames |-> <<Frame("query", <<OperationQuery(c)>>)>>]
      [] ~Special(words) /\ c.type \in ServerKinds ->
            [type |-> c.type, entries |-> <<>>,
             frames |-> <<ServerCommand(c)>>]
      [] ~Special(words) /\ c.type = "query" ->
            [type |-> "query",
             entries |-> <<Entry("query", Get(c, "query"))>>,
             frames |-> <<Frame("query",
                                <<QueryText("plain", "-", Get(c, "query"))>>)>>]
      [] OTHER ->
            IF isDevelopmentCommand(words)
            THEN [type |-> "unknown", entries |-> <<>>,
                  frames |-> <<Frame("query", <<DevelopmentQuery(words)>>)>>]
            ELSE [type |-> "unknown",
                  entries |-> <<Entry("query", words)>>,
                  frames |-> <<Frame("query", <<QueryText("plain", "-", words)>>)>>]

\* createSession(): a record with an empty history under a new id
createSession(id) ==
    /\ ~files[id].exists
    /\ files' = [files EXCEPT ![id] = [exists |-> TRUE, history |-> <<>>]]
    /\ mtimeOrder' = Touch(mtimeOrder, id)
    /\ currentSessionId' = id

\* BrainREPL.start(), up to the await of connect()
ReplStart ==
    /\ proc = "running"
    /\ pc = "replStart"
    /\ connect
    /\ pc' = "replAwaitConnect"
    /\ UNCHANGED <<wire, lastSend, lastDispatch, proc, subs, queryTimer>>
    /\ UNCHANGED replVars

\* BrainREPL.start() after connect() resolved: register the listener, select
\* the session, enter the main loop
ReplConnected ==
    /\ proc = "running"
    /\ pc = "replAwaitConnect"
    /\ promise[ws] = "resolved"
    /\ isRunning' = TRUE
    /\ subs' = subs \cup {"repl"}
    /\ IF opts.continueSession \/ opts.sessionId # "none"
       THEN LET sessionId == IF opts.sessionId # "none"
                             THEN opts.sessionId
                             ELSE getLastSession(mtimeOrder)
            IN IF sessionId # "none"
               THEN /\ currentSessionId' = sessionId
                    /\ UNCHANGED <<files, mtimeOrder>>
               ELSE \E id \in SessionIds : createSession(id)
       ELSE \E id \in SessionIds : createSession(id)
    /\ pc' = "prompt"
    /\ UNCHANGED <<clientVars, wire, lastSend, lastClose, lastDispatch, proc, queryTimer,
                   argv, opts, storeVars, lastOps>>

\* a start() that reports the failure of connect() and goes on to the session
\* and to the prompt
ReplConnectFailed_StartsAnyway ==
    /\ proc = "running"
    /\ pc = "replAwaitConnect"
    /\ promise[ws] \in {"ConnectionTimeout", "ConnectionError"}
    /\ isRunning' = TRUE
    /\ \E id \in SessionIds : createSession(id)
    /\ pc' = "prompt"
    /\ lastOps' = <<OpStep("fault", promise[ws]), OpStep("report", "-")>>
    /\ UNCHANGED <<clientVars, wire, lastSend, lastClose, lastDispatch, proc, subs,
                   queryTimer, argv, opts, storeVars>>

\* BrainREPL.start() after connect() rejected: report, exit(1)
ReplConnectFailed ==
    /\ proc = "running"
    /\ pc = "replAwaitConnect"
    /\ promise[ws] \in {"ConnectionTimeout", "ConnectionError"}
    /\ proc' = "exit1"
    /\ lastOps' = FaultOps(promise[ws], FALSE)
    /\ UNCHANGED <<clientVars, wire, lastSend, lastClose, lastDispatch, pc, subs,
                   queryTimer>>
    /\ UNCHANGED <<files, mtimeOrder, argv, opts, storeVars, currentSessionId, isRunning>>

\* a summary step that reads the history off the record without a check
Summary_ReadsRecord(f, id) ==
    IF id # "none" /\ ~Exists(f, id) THEN "SummaryThrew"
    ELSE IF id # "none" /\ Len(getHistory(f, id)) > 0 THEN "printed"
    ELSE "nothing"

\* the session summary of handleExit: printed when there is an active
\* session whose history, as getHistory returns it, is not empty
Summary(f, id) ==
    IF id # "none" /\ Len(getHistory(f, id)) > 0 THEN "printed" ELSE "nothing"

\* the steps of handleExit, as lastOps records them
ExitOps ==
    <<OpStep("summary", Summary(files, currentSessionId))>>
    \o (IF Summary(files, currentSessionId) = "SummaryThrew"
        THEN <<>>
        ELSE <<OpStep("disconnect", "-"), OpStep("exit", "0")>>)

\* an unanticipated fault outside every try block reaches the process: the
\* handler of uncaughtException or unhandledRejection runs
Fault ==
    /\ Idle
    /\ pc # "replStart"
    /\ UncaughtException
    /\ UNCHANGED <<wire, lastSend, lastDispatch>>

\* handleExit(): print the summary, disconnect, stop the loop, exit(0); an
\* error of the summary step leaves it before the disconnect
handleExit ==
    IF Summary(files, currentSessionId) = "SummaryThrew"
    THEN UNCHANGED <<clientVars, lastClose, isRunning, proc>>
    ELSE /\ disconnect
         /\ isRunning' = FALSE
         /\ proc' = "exit0"

\* the kinds whose handler sends inside its own try block
HandlerCatches ==
    {"read_file", "write_file", "edit_file", "list_directory", "search_files",
     "create_directory", "git_status", "git_diff", "git_log", "git_add",
     "git_commit", "git_branch_info", "analyze_project", "explain_codebase",
     "get_project_structure", "find_definition", "find_references",
     "connect_server", "list_tools"}

\* a main loop whose catch rethrows what is not an interrupt
LineOutcome_NoCatch(type, result) ==
    IF result \notin {"NotConnected", "SendThrew"} THEN "done"
    ELSE IF type \in HandlerCatches THEN "logged by the handler"
    ELSE "rejected"

\* how processInput ends for a line of a kind whose send came to result:
\* normally, or with the error of sendCommand logged by the catch of the
\* handler or, failing that, by the catch of mainLoop
LineOutcome(type, result) ==
    IF result \notin {"NotConnected", "SendThrew"} THEN "done"
    ELSE IF type \in HandlerCatches THEN "logged by the handler"
    ELSE "logged by mainLoop"

\* one turn of mainLoop: the prompt returns a line; a blank line is skipped,
\* any other goes through processInput
ReplLine(line) ==
    /\ Idle
    /\ pc = "prompt"
    /\ isRunning
    /\ IF Blank(line)
       THEN /\ lastOps' = <<OpLine(line)>>
            /\ UNCHANGED <<clientVars, wire, lastSend, lastClose, files, mtimeOrder,
                           isRunning, proc>>
       ELSE \E r \in {Route(line)} :
            LET user == Entry("user", line)
                f1 == addToHistory(files, currentSessionId, user)
                o1 == addToHistoryOrder(files, mtimeOrder, currentSessionId)
                f2 == IF r.entries = <<>> THEN f1
                      ELSE addToHistory(f1, currentSessionId, r.entries[1])
                sends == IF r.frames # <<>> /\ SendResult = "written"
                         THEN <<OpSend(r.frames[1])>> ELSE <<>>
                outcome == IF r.frames = <<>> THEN "done"
                           ELSE LineOutcome(r.type, SendResult)
            IN
            /\ files' = f2
            /\ mtimeOrder' = o1
            /\ IF IsExit(line)
               THEN handleExit /\ UNCHANGED <<wire, lastSend>>
               ELSE /\ IF r.frames # <<>>
                       THEN sendCommand(r.frames[1].command, r.frames[1].params)
                       ELSE UNCHANGED <<clientVars, wire, lastSend, lastClose>>
                    /\ proc' = IF outcome = "rejected" THEN "exit1" ELSE proc
                    /\ UNCHANGED isRunning
            /\ lastOps' = <<OpLine(line)>>
                          \o AppendOps(files, currentSessionId, user)
                          \o (IF Special(line) THEN <<>>
                              ELSE <<OpClassify(r.type)>>)
                          \o (IF r.entries = <<>> THEN <<>>
                              ELSE AppendOps(f1, currentSessionId, r.entries[1]))
                          \o sends
                          \o (IF outcome = "done" THEN <<>>
                              ELSE <<OpStep("error", outcome)>>)
                          \o (IF IsExit(line) THEN ExitOps ELSE <<>>)
    /\ UNCHANGED <<lastDispatch, pc, subs, queryTimer, argv, opts, storeVars, currentSessionId>>

\* mainLoop's catch of ExitPromptError: Ctrl+C at the prompt.  An error of
\* handleExit in this catch rejects mainLoop, and start()'s catch exits
\* with status 1.
ReplInterrupt ==
    /\ Idle
    /\ pc = "prompt"
    /\ isRunning
    /\ IF Summary(files, currentSessionId) = "SummaryThrew"
       THEN /\ proc' = "exit1"
            /\ UNCHANGED <<clientVars, lastClose, isRunning>>
       ELSE handleExit
    /\ lastOps' = <<OpStep("interrupt", "-")>> \o ExitOps
    /\ UNCHANGED <<wire, lastSend, lastDispatch, pc, subs, queryTimer, files,
                   mtimeOrder, argv, opts, storeVars, currentSessionId>>

\* the command lines that start the REPL: `brain`, `brain -c`, `brain -r s1`
\* and `brain -c -r s1`
Flags ==
    {[continue |-> FALSE, resume |-> "none"],
     [continue |-> TRUE, resume |-> "none"],
     [continue |-> FALSE, resume |-> "s1"],
     [continue |-> TRUE, resume |-> "s1"]}

\* main(): the options it constructs the REPL with.  The continue flag is
\* looked at first, and the REPL it starts is not given the resume id.
ReplOptions(flags) ==
    IF flags.continue
    THEN [continueSession |-> TRUE, sessionId |-> "none"]
    ELSE IF flags.resume # "none"
    THEN [continueSession |-> FALSE, sessionId |-> flags.resume]
    ELSE [continueSession |-> FALSE, sessionId |-> "none"]

\* the session directory and the command line the REPL starts from: the
\* store is empty or holds one session
InitRepl ==
    /\ InitClient
    /\ proc = "running"
    /\ pc = "replStart"
    /\ subs = {}
    /\ queryTimer = "unset"
    /\ \/ files = [id \in SessionIds |-> NoFile] /\ mtimeOrder = <<>>
       \/ /\ files = [id \in SessionIds |->
                        IF id = "s1"
                        THEN [exists |-> TRUE,
                              history |-> <<Entry("user", <<"help">>)>>]
                        ELSE NoFile]
          /\ mtimeOrder = <<"s1">>
    /\ argv \in Flags
    /\ opts = ReplOptions(argv)
    /\ currentSessionId = "none"
    /\ isRunning = FALSE
    /\ lastOps = <<>>
    /\ clock = 0
    /\ written = {}
    /\ call = [p \in Procs |-> NoCall]
    /\ lastCall = Returned("-", "-", "none", 0, "none", FALSE, "-", <<>>)
    /\ parsed = <<>>

\* the frames the server sends to the REPL
ReplFrames ==
    {Raw("object", "query_response", "full"),
     Raw("object", "thinking", "full")}

\* the active history has room for n more entries
HistoryRoom(n) == Len(getHistory(files, currentSessionId)) + n <= MaxHistory

NextRepl ==
    \/ ReplStart
    \/ ReplConnected
    \/ ReplConnectFailed
    \/ \E line \in Lines :
          /\ pc = "prompt"
          /\ \E r \in {Route(line)} :
                /\ HistoryRoom(1 + Len(r.entries))
                /\ WireFull => r.frames = <<>>
          /\ ReplLine(line)
    \/ ReplInterrupt
    \/ Sigint
    \/ Fault
    \/ \E s \in Sockets : TimerFire(s)
    \/ \E s \in Sockets : WsOpen(s)
    \/ \E s \in Sockets : WsFail(s)
    \/ \E s \in Sockets : WsError(s)
    \/ \E s \in Sockets : WsClose(s)
    \/ \E s \in Sockets, raw \in ReplFrames : HistoryRoom(1) /\ WsMessage(s, raw)

ReplSpec == InitRepl /\ [][NextRepl]_vars

\* ------------------------------------------------- the classifier at work
\* bound on the lines typed in a session explored line by line
MaxTurns == 1

\* the lines of the active session so far
Turns ==
    Len(SelectSeq(getHistory(files, currentSessionId),
                  LAMBDA e : e.type = "user"))

\* a REPL started without options on an empty session directory
InitClassify ==
    /\ InitRepl
    /\ mtimeOrder = <<>>
    /\ opts = [continueSession |-> FALSE, sessionId |-> "none"]

NextClassify ==
    \/ ReplStart
    \/ ReplConnected
    \/ ReplConnectFailed
    \/ \E line \in TestLines \cup {x.line : x \in HelpExamples} :
          /\ pc = "prompt"
          /\ Turns < MaxTurns
          /\ WireFull => Route(line).frames = <<>>
          /\ ReplLine(line)
    \/ \E s \in Sockets : TimerFire(s)
    \/ \E s \in Sockets : WsOpen(s)
    \/ \E s \in Sockets : WsFail(s)
    \/ \E s \in Sockets : WsError(s)
    \/ \E s \in Sockets : WsClose(s)

ClassifySpec == InitClassify /\ [][NextClassify]_vars

\* ------------------------------------------ the REPL and inbound frames
\* a REPL started without options, a line typed at its prompt, and inbound
\* frames of every kind
NextFrames ==
    \/ ReplStart
    \/ ReplConnected
    \/ ReplConnectFailed
    \/ /\ pc = "prompt"
       /\ HistoryRoom(2)
       /\ ~WireFull
       /\ ReplLine(<<"hello">>)
    \/ \E s \in Sockets : TimerFire(s)
    \/ \E s \in Sockets : WsOpen(s)
    \/ \E s \in Sockets : WsFail(s)
    \/ \E s \in Sockets : WsError(s)
    \/ \E s \in Sockets : WsClose(s)
    \/ \E s \in Sockets, raw \in RawFrames : HistoryRoom(1) /\ WsMessage(s, raw)

FrameSpec == InitClassify /\ [][NextFrames]_vars

\* ------------------------------------- the session store and its processes
\* bound on the instants at which modification times differ
MaxClock == 1
\* bound on the entries of a history the processes append to
MaxEntries == 2

\* what the steps of the store leave alone
notStore == <<clientVars, wire, lastSend, lastClose, lastDispatch, proc, pc,
              subs, queryTimer, argv, opts, currentSessionId, isRunning, lastOps>>

\* the bytes of <id>.json change: its modification time is the present time
Store(id, content) ==
    /\ files' = [files EXCEPT ![id] = content]
    /\ mtimeOrder' = TouchTied(mtimeOrder, id, written)
    /\ written' = written \cup {id}

\* time passes: a file written from now on is newer than every file there is
Tick ==
    /\ clock < MaxClock
    /\ clock' = clock + 1
    /\ written' = {}
    /\ UNCHANGED <<files, mtimeOrder, call, lastCall>>
    /\ UNCHANGED <<notStore, parsed>>

\* createSession(), up to the call of saveSession: a new id, a record with
\* an empty history
CreateSession(p, id) ==
    /\ call[p].pc = "idle"
    /\ \A i \in DOMAIN mtimeOrder : mtimeOrder[i] # id
    /\ \A q \in Procs : call[q].pc \in {"open", "write"} => call[q].id # id
    /\ call' = [call EXCEPT ![p] =
                  [NoCall EXCEPT !.pc = "open", !.op = "createSession",
                                 !.id = id, !.data = NewSession]]
    /\ UNCHANGED <<files, mtimeOrder, clock, written, lastCall>>
    /\ UNCHANGED <<notStore, parsed>>

\* addToHistory(sessionId, entry), up to the call of saveSession: load the
\* record, push the stamped entry; return at once when nothing was loaded
AddToHistory(p, id, entry, fault) ==
    /\ call[p].pc = "idle"
    /\ Len(getHistory(files, id)) < MaxEntries
    /\ \E l \in {loadSession(files, id, fault)}, e \in {Stamped(entry, clock)} :
          IF l = "record"
          THEN /\ call' = [call EXCEPT ![p] =
                             [NoCall EXCEPT !.pc = "open", !.op = "addToHistory",
                                            !.id = id, !.entry = e,
                                            !.before = files[id].history,
                                            !.data = addToHistory(files, id, e)[id]]]
               /\ UNCHANGED lastCall
          ELSE /\ UNCHANGED call
               /\ lastCall' = Returned(p, "addToHistory", id, 0, fault,
                                       l = "raised", "skipped", <<>>)
    /\ UNCHANGED <<files, mtimeOrder, clock, written>>
    /\ UNCHANGED <<notStore, parsed>>

\* what the call of process p returns when saveSession is over
SaveReturns(p, saved) ==
    /\ call' = [call EXCEPT ![p] = NoCall]
    /\ lastCall' = Returned(p, call[p].op, call[p].id, 0,
                            IF saved = "saved" THEN "none" ELSE "write",
                            FALSE, saved,
                            IF call[p].op = "createSession"
                            THEN <<call[p].id>> ELSE <<>>)

\* saveSession, first half: writeFileSync opens <id>.json for writing, which
\* makes the file or empties it; a failure is caught and logged
SaveOpen(p, ok) ==
    /\ call[p].pc = "open"
    /\ IF ok
       THEN /\ Store(call[p].id, NoFile)
            /\ call' = [call EXCEPT ![p].pc = "write"]
            /\ UNCHANGED lastCall
       ELSE /\ SaveReturns(p, "warned")
            /\ UNCHANGED <<files, mtimeOrder, written>>
    /\ UNCHANGED clock
    /\ UNCHANGED <<notStore, parsed>>

\* saveSession, second half: writeFileSync writes the record from the start
\* of the file.  Bytes another process wrote since the file was emptied stay
\* beyond the end of the record when they reach further.  A failure, caught
\* and logged, leaves the file as it is or with a part of the record.
SaveWrite(p, ok) ==
    /\ call[p].pc = "write"
    /\ \E content \in (IF ok
                       THEN IF files[call[p].id] = NoFile
                            THEN {call[p].data}
                            ELSE {call[p].data, Torn}
                       ELSE {files[call[p].id], Torn}) :
          IF content = files[call[p].id]
          THEN UNCHANGED <<files, mtimeOrder, written>>
          ELSE Store(call[p].id, content)
    /\ SaveReturns(p, IF ok THEN "saved" ELSE "warned")
    /\ UNCHANGED clock
    /\ UNCHANGED <<notStore, parsed>>

\* the process fails in the middle of a call: a write it was in stops where
\* it is
Crash(p) ==
    /\ call[p].pc \in {"open", "write"}
    /\ call' = [call EXCEPT ![p] = [NoCall EXCEPT !.pc = "dead"]]
    /\ IF call[p].pc = "write"
       THEN \E content \in {files[call[p].id], Torn} :
               IF content = files[call[p].id]
               THEN UNCHANGED <<files, mtimeOrder, written>>
               ELSE Store(call[p].id, content)
       ELSE UNCHANGED <<files, mtimeOrder, written>>
    /\ UNCHANGED <<clock, lastCall>>
    /\ UNCHANGED <<notStore, parsed>>

\* getHistory(sessionId)
GetHistory(p, id, fault) ==
    /\ call[p].pc = "idle"
    /\ \E l \in {loadSession(files, id, fault)} :
          lastCall' = Returned("-", "getHistory", id, 0, fault, l = "raised", "-",
                               IF l = "record" THEN getHistory(files, id) ELSE <<>>)
    /\ UNCHANGED <<files, mtimeOrder, clock, written, call>>
    /\ UNCHANGED <<notStore, parsed>>

\* getLastSession(): null when the scan throws
GetLastSession(p, fault) ==
    /\ call[p].pc = "idle"
    /\ lastCall' = Returned("-", "getLastSession", "none", 0, fault, FALSE, "-",
                            IF fault = "scan" \/ mtimeOrder = <<>>
                            THEN <<>>
                            ELSE <<getLastSession(mtimeOrder)>>)
    /\ UNCHANGED <<files, mtimeOrder, clock, written, call>>
    /\ UNCHANGED <<notStore, parsed>>

\* listSessions(limit)
ListSessions(p, limit, fault) ==
    /\ call[p].pc = "idle"
    /\ lastCall' = Returned("-", "listSessions", "none", limit, fault, FALSE, "-",
                            listSessions(files, mtimeOrder, limit, fault))
    /\ UNCHANGED <<files, mtimeOrder, clock, written, call>>
    /\ UNCHANGED <<notStore, parsed>>

\* the entry the callers append: the times of the appends tell the entries
\* of a history apart
StoreEntries == {Entry("user", <<"hello">>)}

\* two processes write to the directory and may fail in the middle of a
\* call; both append to the session "s1", the one they have in common
NextStore ==
    \/ Tick
    \/ \E p \in Procs, id \in SessionIds : CreateSession(p, id)
    \/ \E p \in Procs, entry \in StoreEntries, fault \in {"none", "read"} :
          AddToHistory(p, "s1", entry, fault)
    \/ \E p \in Procs, ok \in BOOLEAN : SaveOpen(p, ok)
    \/ \E p \in Procs, ok \in BOOLEAN : SaveWrite(p, ok)
    \/ \E p \in Procs : Crash(p)

\* the processes start on an empty session directory
StoreSpec == Init /\ [][NextStore]_vars

\* one process writes to the directory, scans it and reads from it; it
\* appends to the session "s1"
NextScan ==
    \/ Tick
    \/ \E id \in SessionIds : CreateSession("p1", id)
    \/ \E entry \in StoreEntries, fault \in {"none", "read"} :
          AddToHistory("p1", "s1", entry, fault)
    \/ \E ok \in BOOLEAN : SaveOpen("p1", ok)
    \/ \E ok \in BOOLEAN : SaveWrite("p1", ok)
    \/ \E id \in SessionIds, fault \in {"none", "read"} :
          GetHistory("p1", id, fault)
    \/ \E fault \in {"none", "scan"} : GetLastSession("p1", fault)
    \/ \E limit \in 0..Cardinality(SessionIds),
          fault \in {"none", "scan", "read"} : ListSessions("p1", limit, fault)

ScanSpec == Init /\ [][NextScan]_vars

\* ------------------------------------------------ the classifier alone
\* bound on the calls of parse
MaxCalls == 2

\* a caller of CommandParser.parse(input); the call after the last of the
\* bound gives parse a text it was given before
Parse(text) ==
    /\ \/ Len(parsed) < MaxCalls
       \/ Len(parsed) = MaxCalls /\ \E n \in DOMAIN parsed : parsed[n].input = text
    /\ parsed' = Append(parsed, [input |-> text,
                                 command |-> IF text \in DOMAIN Commands
                                             THEN Commands[text]
                                             ELSE parse(text)])
    /\ UNCHANGED <<notStore, files, mtimeOrder, clock, written, call, lastCall>>

\* the texts given to parse, trimmed and split into words: those typed at
\* the prompt, and the empty and the blank text
NextParse == \E text \in TestLines \cup {<<>>} : Parse(text)

ParseSpec == Init /\ [][NextParse]_vars

\* --------------------------------------------------------------- claims
\* The connection state of the data model, read off the socket this.ws holds
ConnectionState ==
    IF ws = 0 THEN "Idle"
    ELSE IF promise[ws] \in {"ConnectionTimeout", "ConnectionError"} THEN "Failed"
    ELSE IF readyState[ws] \in {"CLOSING", "CLOSED"} THEN "Closed"
    ELSE IF readyState[ws] = "OPEN" THEN "Connected"
    ELSE "Connecting"

Settled == {"resolved", "ConnectionTimeout", "ConnectionError"}

\* C1: sendCommand called in a state in which the client is not Connected
\* (never connected, connect pending or failed, after disconnect(), after the
\* peer closed) fails with NotConnected, writes nothing to the socket and
\* leaves the client state unchanged.
C1_NotConnectedSendFails ==
    [][(/\ ConnectionState # "Connected"
        /\ SendCommand(ClientCommand.command, ClientCommand.params))
       => (/\ lastSend'.result = "NotConnected"
           /\ wire' = wire
           /\ UNCHANGED clientVars)]_vars

\* C2: every connect() call has exactly one outcome, that of its first
\* signal (open: success and the client is connected; timer:
\* ConnectionTimeout; transport error: ConnectionError); a later signal does
\* not change it; and a call whose socket stays in the handshake eventually
\* fails with ConnectionTimeout.
C2_ConnectOneOutcome ==
    /\ [](\A s \in Sockets :
            /\ first[s] = "none" => promise[s] \in {"none", "pending"}
            /\ first[s] = "open" => promise[s] = "resolved"
            /\ first[s] = "timer" => promise[s] = "ConnectionTimeout"
            /\ first[s] = "error" => promise[s] = "ConnectionError")
    /\ [][\A s \in Sockets :
            /\ promise[s] \in Settled => promise'[s] = promise[s]
            /\ (promise[s] = "pending" /\ promise'[s] = "resolved")
                 => (connected' /\ readyState'[s] = "OPEN")]_vars
    /\ \A s \in Sockets :
          (promise[s] = "pending") ~>
             (promise[s] = "ConnectionTimeout" \/ readyState[s] # "CONNECTING")
    /\ \A s \in Sockets : (promise[s] = "pending") ~> (promise[s] \in Settled)

\* the handshake timer expired first and the socket opened afterwards: the
\* outcome of the call is still ConnectionTimeout
C2_Witness ==
    \E s \in Sockets :
        /\ promise[s] = "ConnectionTimeout"
        /\ readyState[s] = "OPEN"
        /\ timer[s] = "fired"

\* C3: Failed and Closed are terminal: from a state in which the connect
\* attempt has failed or the connection has closed, no step makes the client
\* connected.
C3_FailedClosedTerminal ==
    [][(ConnectionState \in {"Failed", "Closed"}) => (connected' = FALSE)]_vars

\* C10: at most one socket has its inbound frames dispatched.
C10_OneLiveSocket ==
    Cardinality({s \in Sockets : readyState[s] = "OPEN"}) <= 1

\* C4: in the one-shot path, once the query is sent, the arrival of a
\* query_response frame ends the process with status 0, whatever frames
\* arrived before it.
C4_ResponseExitsZero ==
    [][\A s \in Sockets, raw \in OneShotFrames :
         (/\ pc = "waiting"
          /\ raw.json = "object"
          /\ raw.type = "query_response"
          /\ WsMessage(s, raw))
         => proc' = "exit0"]_vars

\* C5: every non-blank line submitted in the REPL, special command or not, is
\* appended to the persisted history of the active session as a `user` entry
\* before the line is classified and before any frame is sent for it: the
\* first step of the handler is that append, and the history holds the entry.
C5_UserLineRecordedFirst ==
    (lastOps # <<>> /\ lastOps[1].op = "line" /\ ~Blank(lastOps[1].text)) =>
        LET h == getHistory(files, currentSessionId)
            user == Entry("user", lastOps[1].text)
        IN /\ Len(lastOps) >= 2
           /\ lastOps[2] = OpAppend(user)
           /\ \E i \in 1..Len(h) : h[i] = user

\* C6: a `response` entry is appended to the session history only when a
\* query_response frame arrives, exactly one per such frame, and at the end of
\* the history as it is on arrival: after the message of a query_response the
\* listener made one append and the history ends with that response entry;
\* after any other message it made none.
C6_ResponsePerFrameInArrivalOrder ==
    (lastOps # <<>> /\ lastOps[1].op = "receive") =>
        LET h == getHistory(files, currentSessionId) IN
        IF lastOps[1].text = "query_response"
        THEN /\ Len(lastOps) = 2
             /\ lastOps[2].op = "append"
             /\ lastOps[2].entry.type = "response"
             /\ h # <<>>
             /\ h[Len(h)] = lastOps[2].entry
        ELSE Len(lastOps) = 1

\* C7: every inbound frame that decodes (to a JSON object, with or without a
\* recognized type) is re-emitted verbatim, exactly once, on the generic
\* channel.
C7_DecodedFrameEmittedOnce ==
    (lastDispatch.sock # 0 /\ lastDispatch.raw.json = "object")
        => lastDispatch.emitted = <<JSONparse(lastDispatch.raw)>>

\* C8: a malformed frame is logged and dropped: no typed handler, nothing on
\* the generic channel, client and process state unchanged; and a frame that
\* arrives after a malformed one still reaches its typed handler and the
\* generic channel.
C8_MalformedDropped ==
    /\ [][\A s \in Sockets, raw \in RawFrames :
            (JSONparse(raw) = ParseError /\ WsMessage(s, raw))
            => /\ lastDispatch'.handler = "none"
               /\ lastDispatch'.emitted = <<>>
               /\ lastDispatch'.logged = "Failed to parse message"
               /\ UNCHANGED clientVars
               /\ UNCHANGED appVars]_vars
    /\ []((/\ lastDispatch.dropsBefore
           /\ lastDispatch.raw.json = "object"
           /\ lastDispatch.raw.body = "full"
           /\ lastDispatch.raw.type \in RecognizedTypes)
          => (/\ lastDispatch.handler = lastDispatch.raw.type
              /\ Len(lastDispatch.emitted) = 1
              /\ proc = "running"))

\* a query_response dispatched after a malformed frame was dropped
C8_Witness ==
    /\ lastDispatch.dropsBefore
    /\ lastDispatch.handler = "query_response"
    /\ Len(lastDispatch.emitted) = 1
    /\ connected
    /\ proc = "running"

\* C9 as stated: a frame without a type member is dropped silently (nothing
\* is logged) and no typed handler runs.
C9_NoTypeDroppedSilently ==
    (lastDispatch.raw.json = "object" /\ lastDispatch.raw.type = "absent")
        => (lastDispatch.handler = "none" /\ lastDispatch.logged = "none")

\* C9 amended: a frame without a type member, like a frame with an
\* unrecognized type, is logged as an unknown message type, and in both
\* cases no typed handler runs.
C9_UnknownTypeLoggedNoHandler ==
    (/\ lastDispatch.raw.json = "object"
     /\ lastDispatch.raw.type \notin RecognizedTypes)
        => (/\ lastDispatch.handler = "none"
            /\ lastDispatch.logged = "Unknown message type")

\* a frame without a type member was dispatched
C9_Witness ==
    /\ lastDispatch.raw.json = "object"
    /\ lastDispatch.raw.type = "absent"
    /\ lastDispatch.logged = "Unknown message type"
    /\ lastDispatch.handler = "none"

\* C11: disconnect() never raises, whatever the state (never connected,
\* connecting, connected, already closed); after it the client is not
\* Connected; and a second call changes nothing: disconnect applied to the
\* state a disconnect leaves gives that state again, with its socket closing
\* or closed.
C11_DisconnectIdempotent ==
    /\ [][Disconnect =>
            /\ lastClose' = "returned"
            /\ connected' = FALSE
            /\ ConnectionState' # "Connected"
            /\ ws # 0 => readyState'[ws] \in {"CLOSING", "CLOSED"}]_vars
    /\ [](/\ DisconnectResult(Disconnected(ClientState)) = "returned"
          /\ Disconnected(Disconnected(ClientState)) = Disconnected(ClientState))

\* disconnect() was called during the handshake and returned: the socket
\* went through the abort (error, then close) and the client is not connected
C11_Witness ==
    /\ lastClose = "returned"
    /\ ws # 0
    /\ readyState[ws] = "CLOSED"
    /\ first[ws] = "error"
    /\ ~connected

\* C12 as stated: every exit of the REPL, by the exit line or by an interrupt
\* at the prompt, follows the same path: session summary, disconnect,
\* terminate.
C12_SameExitPath ==
    (pc = "prompt" /\ proc = "exit0") =>
        /\ Len(lastOps) >= 3
        /\ lastOps[Len(lastOps) - 2].op = "summary"
        /\ lastOps[Len(lastOps) - 1].op = "disconnect"
        /\ lastOps[Len(lastOps)].op = "exit"

\* C12 amended: every exit of the REPL at the prompt calls disconnect()
\* before the process terminates with status 0; the exit line and the
\* interrupt of the prompt go through the summary first, which never raises,
\* not even when the record of the active session is unavailable, so both
\* always end the process; the SIGINT handler of the process disconnects
\* and exits without a summary.
C12_ExitDisconnectsFirst ==
    /\ []((pc = "prompt" /\ proc = "exit0") =>
            /\ Len(lastOps) >= 3
            /\ lastOps[Len(lastOps) - 1].op = "disconnect"
            /\ lastOps[Len(lastOps)].op = "exit"
            /\ lastOps[Len(lastOps) - 2].op \in {"summary", "SIGINT"}
            /\ (lastOps[1].op \in {"line", "interrupt"}
                  => lastOps[Len(lastOps) - 2].op = "summary")
            /\ lastClose = "returned"
            /\ ~connected
            /\ ~isRunning \/ lastOps[1].op = "SIGINT")
    /\ [][(ReplLine(<<"exit">>) \/ ReplInterrupt) => proc' = "exit0"]_vars
    /\ [](Summary(files, currentSessionId) # "SummaryThrew")

\* the prompt was interrupted while the active session had no record: the
\* summary printed nothing, the client disconnected, the process exited 0
C12_Witness ==
    /\ pc = "prompt"
    /\ proc = "exit0"
    /\ currentSessionId # "none"
    /\ ~Exists(files, currentSessionId)
    /\ lastOps = <<OpStep("interrupt", "-"), OpStep("summary", "nothing"),
                   OpStep("disconnect", "-"), OpStep("exit", "0")>>
    /\ ~connected

\* C13: a fault that reaches the top level of the process (an uncaught
\* exception, an unhandled rejection, a rejection in the main routine) is
\* handled by disconnecting the transport, reporting the fault and
\* terminating with a non-zero status, in that order.
C13_FaultDisconnectsReportsExits ==
    (lastOps # <<>> /\ lastOps[1].op = "fault") =>
        /\ proc = "exit1"
        /\ Len(lastOps) = 4
        /\ lastOps[2].op = "disconnect"
        /\ lastOps[3].op = "report"
        /\ lastOps[4] = OpStep("exit", "1")

\* C14: after a line other than exit/quit the loop issues another prompt:
\* the process is running and at the prompt, whether the frame of the line
\* was written (no reply is waited for) or the send failed with an error,
\* which is then logged and nothing is written.
C14_AlwaysAnotherPrompt ==
    [][\A line \in {l \in Lines : ~Blank(l) /\ ~IsExit(l)} :
         ReplLine(line) =>
            /\ proc' = "running"
            /\ isRunning'
            /\ pc' = "prompt"
            /\ lastDispatch' = lastDispatch
            /\ (Route(line).frames # <<>>
                  /\ SendResult \in {"NotConnected", "SendThrew"})
                 => /\ wire' = wire
                    /\ lastOps'[Len(lastOps')].op = "error"
                    /\ lastOps'[Len(lastOps')].text
                          \in {"logged by the handler", "logged by mainLoop"}]_vars

\* a query typed after the peer closed: NotConnected was logged by mainLoop
\* and the REPL is at the prompt again
C14_Witness ==
    /\ proc = "running"
    /\ pc = "prompt"
    /\ isRunning
    /\ readyState[ws] = "CLOSED"
    /\ lastSend.result = "NotConnected"
    /\ lastOps # <<>>
    /\ lastOps[1] = OpLine(<<"hello">>)
    /\ lastOps[Len(lastOps)] = OpStep("error", "logged by mainLoop")

\* C15: the one-shot print path always terminates the process: with a
\* non-zero status when connect or the send fails, with a non-zero status
\* when its query timer expires, and otherwise on the response, with status
\* 0 when the query_response arrives; it never stays running.
C15_OneShotTerminates ==
    /\ <>(proc # "running")
    /\ [][OneShotConnectFailed => proc' = "exit1"]_vars
    /\ [][(OneShotConnected /\ SendResult \in {"NotConnected", "SendThrew"})
            => proc' = "exit1"]_vars
    /\ [][QueryTimeout => proc' = "exit1"]_vars
    /\ [][\A s \in Sockets :
            (/\ pc = "waiting"
             /\ queryTimer = "armed"
             /\ WsMessage(s, Raw("object", "query_response", "full")))
            => proc' = "exit0"]_vars

C21_AppendThenReadYieldsEntry ==
    [][\A p \in Procs :
          (/\ call[p].op = "addToHistory"
           /\ call[p].pc \in {"open", "write"}
           /\ call'[p].pc = "idle")
          => getHistory(files', call[p].id)
             = Append(call[p].before, call[p].entry)]_vars

\* C21 (amended): when addToHistory(id, e) on a session whose record was
\* loaded returns after its write succeeded, and no other process wrote to
\* the file while it was open, the history read next is the history that was
\* loaded followed by one more entry: the type and the content of e, and the
\* time of the append.
C21_SavedAppendThenReadYieldsEntry ==
    [][\A p \in Procs :
          (/\ call[p].op = "addToHistory"
           /\ call[p].pc = "write"
           /\ call'[p].pc = "idle"
           /\ lastCall'.saved = "saved"
           /\ files[call[p].id] = NoFile)
          => \E e \in StoreEntries, t \in 0..clock :
                getHistory(files', call[p].id)
                = Append(call[p].before,
                         [type |-> e.type, content |-> e.content,
                          timestamp |-> t])]_vars

\* an append that was saved returned last: the history holds an earlier
\* entry and, after it, the entry of a later time
C21_Witness ==
    /\ lastCall.op = "addToHistory"
    /\ lastCall.saved = "saved"
    /\ \A p \in Procs : call[p].pc = "idle"
    /\ Len(getHistory(files, lastCall.id)) = 2
    /\ getHistory(files, lastCall.id)[1].timestamp
       < getHistory(files, lastCall.id)[2].timestamp

\* C22: addToHistory never raises, and when the record of the id is missing
\* or cannot be read it returns without writing: no file is made or changed,
\* no modification time moves, and the process is in no call.
C22_AppendWithoutRecordIsSilentNoOp ==
    [][\A p \in Procs, id \in SessionIds, e \in StoreEntries,
          fault \in {"none", "read"} :
          AddToHistory(p, id, e, fault)
          => /\ ~lastCall'.raised
             /\ (loadSession(files, id, fault) # "record")
                => /\ files' = files
                   /\ mtimeOrder' = mtimeOrder
                   /\ call' = call
                   /\ lastCall'.op = "addToHistory"
                   /\ lastCall'.saved = "skipped"]_vars

\* an append to a file that does not parse returned without writing
C22_Witness ==
    /\ lastCall.op = "addToHistory"
    /\ lastCall.saved = "skipped"
    /\ lastCall.fault = "none"
    /\ ~lastCall.raised
    /\ files[lastCall.id] = Torn
    /\ \A p \in Procs : call[p].pc \in {"idle", "dead"}

\* C23 (as stated): whenever createSession() returns an id, the record of the
\* id can be read, its history is empty, and the id is among the files a
\* scan of the directory finds and listSessions reports.
C23_CreateIsDurableAtOnce ==
    [][\A p \in Procs :
          (/\ call[p].op = "createSession"
           /\ call[p].pc \in {"open", "write"}
           /\ call'[p].pc = "idle")
          => /\ Exists(files', call[p].id)
             /\ getHistory(files', call[p].id) = <<>>
             /\ \E i \in DOMAIN mtimeOrder' : mtimeOrder'[i] = call[p].id
             /\ \E s \in {listSessions(files', mtimeOrder',
                                       Cardinality(SessionIds), "none")} :
                   \E i \in DOMAIN s : s[i].id = call[p].id]_vars

\* C23 (amended): whenever createSession() returns after its write
\* succeeded, it returns the id, the record of the id can be read, its
\* history is empty, and the id is among the files a scan of the directory
\* finds and listSessions reports with a count of 0.
C23_SavedCreateIsDurableAtOnce ==
    [][\A p \in Procs :
          (/\ call[p].op = "createSession"
           /\ call[p].pc = "write"
           /\ call'[p].pc = "idle"
           /\ lastCall'.saved = "saved")
          => /\ lastCall'.result = <<call[p].id>>
             /\ Exists(files', call[p].id)
             /\ getHistory(files', call[p].id) = <<>>
             /\ \E i \in DOMAIN mtimeOrder' : mtimeOrder'[i] = call[p].id
             /\ \E s \in {listSessions(files', mtimeOrder',
                                       Cardinality(SessionIds), "none")} :
                   \E i \in DOMAIN s :
                      s[i] = [id |-> call[p].id, historyCount |-> 0]]_vars

\* a createSession() that was saved returned last, beside a session that
\* was there before
C23_Witness ==
    /\ lastCall.op = "createSession"
    /\ lastCall.saved = "saved"
    /\ \A p \in Procs : call[p].pc = "idle"
    /\ files[lastCall.id] = NewSession
    /\ Len(mtimeOrder) = 2

\* C24: after createSession() returned with its record saved, and before
\* anything else is written, getLastSession() gives the id it returned.
C24_MostRecentIsLastCreated ==
    (/\ lastCall.op = "createSession"
     /\ lastCall.saved = "saved"
     /\ call["p1"].pc = "idle")
    => getLastSession(mtimeOrder) = lastCall.id

\* C25: listSessions(limit), when the scan and the reads succeed, returns
\* min(limit, number of files) summaries, the most recently written file
\* first and each of the others older than the one before it, and the count
\* of each summary is the length of the history getHistory reads.
C25_ListNewestFirstWithCounts ==
    [][\A limit \in 0..Cardinality(SessionIds) :
          ListSessions("p1", limit, "none")
          => \E r \in {lastCall'.result}, n \in {Len(mtimeOrder)} :
                /\ Len(r) <= limit
                /\ Len(r) = IF limit < n THEN limit ELSE n
                /\ \A i \in DOMAIN r :
                      /\ r[i].id = mtimeOrder[n + 1 - i]
                      /\ r[i].historyCount
                         = Len(getHistory(files, r[i].id))]_vars

\* listSessions(1) on a directory of two sessions returned the newer one,
\* with the count of its history, which is not empty
C25_Witness ==
    /\ lastCall.op = "listSessions"
    /\ lastCall.fault = "none"
    /\ lastCall.limit = 1
    /\ call["p1"].pc = "idle"
    /\ Len(mtimeOrder) = 2
    /\ Len(lastCall.result) = 1
    /\ lastCall.result[1].id = mtimeOrder[2]
    /\ lastCall.result[1].historyCount > 0
    /\ Exists(files, mtimeOrder[1])

\* C26 (as stated): getHistory, getLastSession and listSessions, when a
\* read or the scan fails, do not raise and return an empty result.
C26_FaultyReadGivesEmptyResult ==
    [][(\/ \E id \in SessionIds : GetHistory("p1", id, "read")
        \/ GetLastSession("p1", "scan")
        \/ \E limit \in 0..Cardinality(SessionIds), fault \in {"scan", "read"} :
              ListSessions("p1", limit, fault))
       => /\ ~lastCall'.raised
          /\ lastCall'.result = <<>>]_vars

\* C26 (amended): none of the three raises.  getHistory returns [] when the
\* record cannot be read; getLastSession returns null and listSessions
\* returns [] when the scan fails; listSessions, when the scan succeeds and
\* the records cannot be read, still returns the newest files, newest first,
\* each with a count of 0.
C26_FaultyReadDegrades ==
    [][/\ (\E id \in SessionIds : GetHistory("p1", id, "read"))
          => (~lastCall'.raised /\ lastCall'.result = <<>>)
       /\ GetLastSession("p1", "scan")
          => (~lastCall'.raised /\ lastCall'.result = <<>>)
       /\ \A limit \in 0..Cardinality(SessionIds) :
             /\ ListSessions("p1", limit, "scan")
                => (~lastCall'.raised /\ lastCall'.result = <<>>)
             /\ ListSessions("p1", limit, "read")
                => \E r \in {lastCall'.result}, n \in {Len(mtimeOrder)} :
                      /\ ~lastCall'.raised
                      /\ Len(r) = IF limit < n THEN limit ELSE n
                      /\ \A i \in DOMAIN r :
                            r[i] = [id |-> mtimeOrder[n + 1 - i],
                                    historyCount |-> 0]]_vars

\* listSessions returned a summary with a count of 0 for a session whose
\* history holds an entry: its record could not be read
C26_Witness ==
    /\ lastCall.op = "listSessions"
    /\ lastCall.fault = "read"
    /\ call["p1"].pc = "idle"
    /\ lastCall.result # <<>>
    /\ lastCall.result[1].historyCount = 0
    /\ Len(getHistory(files, lastCall.result[1].id)) > 0

\* C27: when a process fails in the middle of addToHistory, the entries of
\* the history it loaded can still be read afterwards.
C27_CrashLosesOnlyEntryInFlight ==
    [][\A p \in Procs :
          (/\ call[p].op = "addToHistory"
           /\ call'[p].pc = "dead"
           /\ \A q \in Procs \ {p} : call[q].pc \in {"idle", "dead"})
          => \E h \in {getHistory(files', call[p].id)} :
                /\ Len(h) >= Len(call[p].before)
                /\ SubSeq(h, 1, Len(call[p].before)) = call[p].before]_vars

\* C28: the last write wins: when the write of an addToHistory succeeds, the
\* file holds the record that call wrote, which is the history the call
\* loaded and its own entry, and no entry another process wrote since.
C28_LastWriteWins ==
    [][\A p \in Procs :
          (/\ call[p].op = "addToHistory"
           /\ call[p].pc = "write"
           /\ call'[p].pc = "idle"
           /\ lastCall'.saved = "saved")
          => files'[call[p].id] = call[p].data]_vars

\* --------------------------------------------------- claims on the classifier
\* the rules that match each text, by their place in the list
Hits ==
    [text \in TestLines \cup {<<>>} |->
        {i \in DOMAIN patterns : Apply(patterns[i], text).match}]

\* C29: parse returns the Command of the rule that matches and stands first
\* in the list, whatever later rules match; the list holds the rules of the
\* file operations, then git, then the codebase, then the servers, then the
\* queries; the text `status` is a git_status.
C29_EarliestDeclaredRuleWins ==
    /\ \A n \in DOMAIN parsed :
          \A i \in Hits[parsed[n].input] :
             (\A j \in Hits[parsed[n].input] : i <= j)
             => parsed[n].command = Apply(patterns[i], parsed[n].input)
    /\ \A n \in DOMAIN parsed :
          parsed[n].input = <<"status">> => parsed[n].command.type = "git_status"
    /\ LET Family(type) ==
               IF type \in FileKinds THEN 1
               ELSE IF type \in GitKinds THEN 2
               ELSE IF type \in CodebaseKinds THEN 3
               ELSE IF type \in ServerKinds THEN 4
               ELSE 5
       IN \A i \in 1..(Len(patterns) - 1) :
             Family(patterns[i].type) <= Family(patterns[i + 1].type)

\* parse returned the Command of the first of two rules of different kinds
\* that match the text, and the text `status` was parsed
C29_Witness ==
    /\ Len(parsed) = 2
    /\ parsed[1].input = <<"status">>
    /\ \E i, j \in Hits[parsed[2].input] :
          /\ i < j
          /\ patterns[i].type # patterns[j].type
          /\ parsed[2].command.type = patterns[i].type

\* C30: parse does not raise, and a text no rule matches, the empty text
\* among them, gives { type: 'unknown', input } with the trimmed text.
C30_NoMatchIsUnknown ==
    \A n \in DOMAIN parsed :
       /\ parsed[n].command.type # "raised"
       /\ Hits[parsed[n].input] = {}
          => parsed[n].command
             = Match("unknown", <<Member("input", parsed[n].input)>>)

\* the empty text and a text of words no rule matches were parsed
C30_Witness ==
    /\ Len(parsed) = 2
    /\ parsed[1].input = <<>>
    /\ parsed[1].command.type = "unknown"
    /\ parsed[2].input # <<>>
    /\ Hits[parsed[2].input] = {}
    /\ parsed[2].command.type = "unknown"

C33_GitCommitQuotedMessage ==
    \A n \in DOMAIN parsed :
       /\ parsed[n].input = <<"git", "commit", "\"fix", "bug\"">> =>
             /\ parsed[n].command
                = Match("git_commit", <<Member("message", <<"fix", "bug">>)>>)
             /\ \A i \in Hits[parsed[n].input] :
                   /\ patterns[i].type = "git_commit"
                   /\ \A j \in 1..(i - 1) : patterns[j].type # "git_commit"
       /\ parsed[n].input = <<"git", "commit", "-m", "'msg'">> =>
             parsed[n].command
             = Match("git_commit", <<Member("message", <<"msg">>)>>)

\* both lines were parsed, the one with -m and the one without
C33_Witness ==
    /\ Len(parsed) >= 2
    /\ parsed[1].input = <<"git", "commit", "\"fix", "bug\"">>
    /\ parsed[1].command.type = "git_commit"
    /\ parsed[2].input = <<"git", "commit", "-m", "'msg'">>
    /\ parsed[2].command.type = "git_commit"

\* ------------------------------------------------------ claims on the REPL
\* C32: each example line of the help text is classified to the kind the
\* help text gives for it: the parser gives that kind for the line, a
\* classification step of the handler of the line gives that kind, and what
\* the handler of `list servers` writes is get_servers.
C32_HelpExamplesClassifiedAsAdvertised ==
    \A x \in HelpExamples :
       (lastOps # <<>> /\ lastOps[1] = OpLine(x.line)) =>
          /\ parse(x.line).type = x.kind
          /\ \A i \in DOMAIN lastOps :
                /\ lastOps[i].op = "classify" => lastOps[i].text = x.kind
                /\ (lastOps[i].op = "send" /\ x.kind = "list_servers")
                   => lastOps[i].frame = Frame("get_servers", <<>>)

\* C34: while the REPL is running, the active session id names a session
\* record that exists in the store, however the session was selected at
\* start: fresh, continue-last or resume by id.
C34_ActiveSessionHasRecord ==
    (proc = "running" /\ isRunning) =>
        /\ currentSessionId \in SessionIds
        /\ files[currentSessionId].exists

\* C35: at the start of the REPL the active session is the resume id when
\* the command line gives one; otherwise, with the continue flag, the most
\* recent session when there is one; otherwise a session created then.  A
\* record is created exactly when no resume id is given and either the
\* continue flag is off or the store holds no session.
C35_SessionChosenAtStart ==
    [][(pc = "replAwaitConnect" /\ pc' = "prompt") =>
          LET created == {id \in SessionIds :
                             ~files[id].exists /\ files'[id].exists}
          IN /\ IF argv.resume # "none"
                THEN currentSessionId' = argv.resume
                ELSE IF argv.continue /\ mtimeOrder # <<>>
                THEN currentSessionId' = getLastSession(mtimeOrder)
                ELSE currentSessionId' \in created
             /\ created # {}
                <=> /\ argv.resume = "none"
                    /\ ~argv.continue \/ mtimeOrder = <<>>]_vars

\* C36: the REPL creates or selects its session, and prompts, only after
\* connect() has succeeded: a step that writes a session record, sets the
\* active session or reaches the prompt starts where the promise of connect()
\* is resolved; and where the promise is rejected, by the timeout or by an
\* error of the transport, the step of start() ends the process with status
\* 1 and leaves the store, the active session and the running flag as they
\* were, so that no prompt follows.
C36_SessionOnlyAfterConnect ==
    /\ [][(files' # files \/ currentSessionId' # currentSessionId
           \/ isRunning' # isRunning \/ pc' = "prompt")
          => (ws # 0 /\ promise[ws] = "resolved")]_vars
    /\ [][(pc = "replAwaitConnect"
           /\ promise[ws] \in {"ConnectionTimeout", "ConnectionError"})
          => /\ proc' = "exit1"
             /\ pc' = pc
             /\ UNCHANGED <<files, mtimeOrder, currentSessionId, isRunning>>]_vars
    /\ [](proc = "exit1" /\ pc = "replAwaitConnect"
          => currentSessionId = "none" /\ ~isRunning)

\* connect() of a REPL told to resume a session timed out: the process ended
\* with status 1, no session selected
C36_Witness ==
    /\ proc = "exit1"
    /\ pc = "replAwaitConnect"
    /\ promise[ws] = "ConnectionTimeout"
    /\ argv.resume = "s1"
    /\ currentSessionId = "none"
    /\ lastOps = FaultOps("ConnectionTimeout", FALSE)

\* C37: an inbound frame of a type other than query_response (thinking,
\* status, error, servers_list, tools_list, server_connected,
\* server_disconnected, a type that is not recognized, no type at all, or
\* text that is not an object) leaves the session
\* files, and so every history, the active session id and the running flag
\* as they were.
C37_OtherFramesLeaveSessionAlone ==
    [][\A s \in Sockets, raw \in RawFrames :
          (raw.type # "query_response" /\ WsMessage(s, raw))
          => UNCHANGED <<files, mtimeOrder, currentSessionId, isRunning>>]_vars

\* an error frame reached the listener of a REPL whose session holds a line:
\* the listener recorded nothing
C37_Witness ==
    /\ lastOps = <<OpReceive("error")>>
    /\ lastDispatch.raw = Raw("object", "error", "full")
    /\ isRunning
    /\ Exists(files, currentSessionId)
    /\ Len(getHistory(files, currentSessionId)) >= 1

\* C38: within one process an append is atomic with respect to every other
\* callback: each handler at the prompt, of a line or of an inbound frame,
\* leaves the history of the active session as it found it followed by the
\* entries it appended, in the order it appended them; so every entry
\* appended is in the history, whatever the order of lines and frames.
C38_AppendsNeverInterleave ==
    [][(pc = "prompt" /\ (files' # files \/ lastOps' # lastOps)) =>
          LET appended == SelectSeq(lastOps', LAMBDA o : o.op = "append")
          IN getHistory(files', currentSessionId)
             = getHistory(files, currentSessionId)
               \o [i \in 1..Len(appended) |-> appended[i].entry]]_vars

\* a response arrived, then a line was typed and recorded with its query: the
\* history ends with the three entries in that order
C38_Witness ==
    LET h == getHistory(files, currentSessionId) IN
    /\ Len(h) >= 3
    /\ h[Len(h) - 2].type = "response"
    /\ h[Len(h) - 1].type = "user"
    /\ h[Len(h)].type = "query"
    /\ lastOps # <<>>
    /\ lastOps[1].op = "line"

\* ------------------------------------------- claims on the inbound dispatch
\* C39: an exception raised by a typed handler, or by a listener of the
\* generic channel, while an inbound frame is dispatched does not leave the
\* 'message' listener of the socket: the catch logs it, the process runs on,
\* the state of the connection is as it was, and a frame that arrives later
\* reaches its typed handler and the generic channel as any frame does.
C39_DispatchExceptionContained ==
    /\ [](~lastDispatch.escaped /\ proc = "running")
    /\ [][\A s \in Sockets, raw \in RawFrames :
             WsMessage(s, raw) =>
                LET m == JSONparse(raw)
                    h == HandlerFor(TypeOf(m))
                    raised == /\ m.kind = "object"
                              /\ HandlerThrows(h, m) \/ "throws" \in subs
                IN /\ raised => /\ lastDispatch'.caught
                                /\ lastDispatch'.logged # "none"
                   /\ UNCHANGED clientVars
                   /\ m.kind = "object" =>
                         /\ lastDispatch'.handler = h
                         /\ ~HandlerThrows(h, m) => lastDispatch'.emitted = <<m>>]_vars

\* after a frame whose dispatch raised an exception, a query_response went
\* through its typed handler to a listener that threw: the catch logged the
\* exception and the socket is still open
C39_Witness ==
    /\ lastDispatch.raisedBefore
    /\ lastDispatch.handler = "query_response"
    /\ lastDispatch.emitted # <<>>
    /\ lastDispatch.caught
    /\ "throws" \in subs
    /\ connected
    /\ readyState[ws] = "OPEN"
    /\ proc = "running"

\* ------------------------------------------- claims on history and frames
\* C40: every `query` entry of the session history has a `query` frame that
\* was written to the socket, and every `query` frame the REPL writes has a
\* `query` entry: the handler of a line appended as many `query` entries as
\* it wrote `query` frames, each frame carrying the text of its entry.
C40_QueryEntriesMatchQueryFrames ==
    (lastOps # <<>> /\ lastOps[1].op = "line") =>
        LET entries == SelectSeq(lastOps, LAMBDA o :
                          o.op = "append" /\ o.entry.type = "query")
            frames == SelectSeq(lastOps, LAMBDA o :
                          o.op = "send" /\ o.frame.command = "query")
        IN /\ Len(entries) = Len(frames)
           /\ \A i \in DOMAIN entries :
                 frames[i].frame.params[1].body = entries[i].entry.content

====
